---- MODULE Spec2Model ----
(***************************************************************************)
(* A model of the intent pipeline and batch handlers of the bundler:       *)
(*   - the unsolved-intent queue (pkg/client/client.go, Queue),            *)
(*   - the per-tick Solver dispatch (pkg/client/solveintents.go),          *)
(*   - the batch-time Solver handler (pkg/modules/solution),               *)
(*   - the Relayer batch handler (relay.go, src/unnamed/part_008).         *)
(***************************************************************************)
EXTENDS Integers, Sequences, FiniteSets, TLC

VARIABLES
    now,            \* time.Now().Unix(), in seconds
    env,            \* what the run explores, fixed by Init: the last second
                    \* (horizon), the operations RPC callers submit (ops)
                    \* and how many calls they make (calls)
    Unsolved,       \* EntryPointIntents.Unsolved : Queue, [items, keys]
    Buffer,         \* EntryPointIntents.Buffer   : hash -> user operation
    InvalidIntents, \* EntryPointIntents.InvalidIntents
    solvedOps,      \* Client.solvedOps channel, oldest first
    adding,         \* goroutines of processIntentUserOps not yet run
    mempool,        \* hash -> user operation
    crashed,        \* the process died of a nil dereference
    admittedAt,     \* hash -> second of the first admission of the intent
    calls,          \* eth_sendUserOperation calls made so far
    last,           \* the step just taken and what it worked on
    Batch,          \* BatchHandlerCtx.Batch of the round under way
    PendingRemoval, \* BatchHandlerCtx.PendingRemoval
    pc,             \* where the round is: "idle", "solve", "relay", "done"
    handlerRet,     \* what the batch handler that ran last returned
    handleOpsCalls, \* the batches passed to handleOps in the round
    hist,           \* history of the round: the batch as drained, the
                    \* Solver's response, the solutions applied and the
                    \* batch the Relayer received
    entryPointsIntents, \* Client.entryPointsIntents[entrypoint] as the
                    \* goroutines see it: 0 (nil) or the number of an element
                    \* of created
    created,        \* the EntryPointIntents made by NewEntryPointIntent, each
                    \* with its ticker: [Unsolved, Buffer, InvalidIntents,
                    \* posting, sent, ticks]
    rpc,            \* the goroutines of the RPC handlers inside processIntent:
                    \* [pc, op, sawNil, ep]
    mu,             \* Queue.mu: 0 when unlocked, else the goroutine holding it
    workers,        \* the goroutines enqueueing at the same time:
                    \* [pc, i, local]
    pool            \* the mempool as the Client and the batch assembler use
                    \* it: the entries [op, inflight] in order of arrival

tickVars == <<now, env, Unsolved, Buffer, InvalidIntents, solvedOps,
              adding, mempool, crashed, admittedAt, calls, last>>

batchVars == <<Batch, PendingRemoval, pc, handlerRet, handleOpsCalls, hist>>

raceVars == <<entryPointsIntents, created, rpc>>

queueVars == <<mu, workers>>

clientVars == <<pool>>

-----------------------------------------------------------------------------
(* Bounds of the model.                                                    *)

MaxTime  == 3      \* last second explored by Spec
MaxCalls == 3      \* eth_sendUserOperation calls explored
MaxBatch == 3      \* operations in a drained batch
MaxReverts == 2    \* reverts of one estimation loop
MaxHandlers == 2   \* RPC handler goroutines running at the same time
MaxOps == 4        \* calls made on a Queue
MaxOpsForUnstakedSender == 2  \* erc4337_bundler_max_ops_for_unstaked_sender
MaxClientSteps == 5  \* calls of the Client and steps of the batch assembler
MaxVerificationGas == 3  \* erc4337_bundler_max_verification_gas, scaled down
MaxEnqueues == 3   \* enqueues made by each of the concurrent goroutines
MaxIdentifyCalls == 2  \* calls of identifyIntent on one entry point
MaxEstimations == 3  \* estimations followed in one run of the Relayer's loop

(* Program constants.                                                      *)

TickPeriod == 1    \* SetTickerFunc(time.Second*1, ...)
ttl        == 100  \* const ttl = time.Duration(100 * time.Second)
MaxOpTTL   == 180  \* erc4337_bundler_max_op_ttl_seconds

-----------------------------------------------------------------------------
(* User operations.  CallData is either EVM instructions, the JSON body of *)
(* an intent (which carries the createdAt and expirationAt the user gave,  *)
(* 0 when absent), or JSON that does not decode into an Intent.  The       *)
(* signature is the signer's, followed by nothing ("none"), by the JSON of *)
(* the intent ("intent") or by EVM instructions ("evm").                   *)

EVM(k)           == [kind |-> "evm", createdAt |-> 0, expirationAt |-> 0, code |-> k]
IntentJSON(c, e) == [kind |-> "intent", createdAt |-> c, expirationAt |-> e, code |-> 0]
OtherJSON        == [kind |-> "json", createdAt |-> 0, expirationAt |-> 0, code |-> 0]

Gas(k) == [CallGasLimit |-> 10 + k, VerificationGasLimit |-> 20 + k,
           PreVerificationGas |-> 30 + k, MaxFeePerGas |-> 40 + k,
           MaxPriorityFeePerGas |-> 50 + k]

UserOp(sender, nonce, cd, tail, g) ==
    [Sender |-> sender, Nonce |-> nonce, InitCode |-> 0, CallData |-> cd,
     Signature |-> [sig |-> sender, tail |-> tail],
     CallGasLimit |-> Gas(g).CallGasLimit,
     VerificationGasLimit |-> Gas(g).VerificationGasLimit,
     PreVerificationGas |-> Gas(g).PreVerificationGas,
     MaxFeePerGas |-> Gas(g).MaxFeePerGas,
     MaxPriorityFeePerGas |-> Gas(g).MaxPriorityFeePerGas]

\* pkg/userop/intent.go: the calldata is valid JSON.
HasIntent(op) == op.CallData.kind \in {"intent", "json"}

\* json.Unmarshal(userOp.CallData, &intent) succeeds.
DecodesAsIntent(op) == op.CallData.kind = "intent"

\* The digest covers every field but the signature, with the entry point and
\* the chain id, which are fixed here.
GetUserOpHash(op) ==
    <<op.Sender, op.Nonce, op.InitCode, op.CallData, op.CallGasLimit,
      op.VerificationGasLimit, op.PreVerificationGas, op.MaxFeePerGas,
      op.MaxPriorityFeePerGas>>

Statuses == {"Received", "SentToSolver", "Solved", "Unsolved", "Expired", "Invalid"}

-----------------------------------------------------------------------------
(* Queue[T] of pkg/client/client.go: items, the key -> index map, and the  *)
(* capacity of the slice holding the items.                                *)

NewQueue(capacity) == [items |-> <<>>, keys |-> <<>>, cap |-> capacity]

\* cap() of the slice append returns: the same array while the items fit,
\* else a new array, for which the language promises only that it is large
\* enough; the model takes the smallest such array.
GrowCap(capacity, needed) == IF needed <= capacity THEN capacity ELSE needed

updateKeysAfterEnqueueStrict(keys, index) ==
    [k \in DOMAIN keys |-> IF keys[k] > index THEN keys[k] + 1 ELSE keys[k]]

updateKeysAfterEnqueue(keys, index) ==
    [k \in DOMAIN keys |-> IF keys[k] >= index THEN keys[k] + 1 ELSE keys[k]]

SetKey(keys, key, idx) ==
    [k \in DOMAIN keys \cup {key} |-> IF k = key THEN idx ELSE keys[k]]

\* EnqueueHead appends the items to the one-item slice []T{item}.
EnqueueHead(q, key, item) ==
    [items |-> <<item>> \o q.items,
     keys  |-> SetKey(updateKeysAfterEnqueue(q.keys, 0), key, 0),
     cap   |-> GrowCap(1, Len(q.items) + 1)]

EnqueueTailOffByOne(q, key, item) ==
    [items |-> Append(q.items, item),
     keys  |-> SetKey(q.keys, key, Len(q.items) + 1),
     cap   |-> GrowCap(q.cap, Len(q.items) + 1)]

EnqueueTail(q, key, item) ==
    [items |-> Append(q.items, item),
     keys  |-> SetKey(q.keys, key, Len(q.items)),
     cap   |-> GrowCap(q.cap, Len(q.items) + 1)]

ResetKeepingCapacity(q, capacity) == [q EXCEPT !.items = <<>>]

\* Reset replaces the items by an empty slice of the capacity asked for and
\* leaves the keys as they are.
Reset(q, capacity) == [q EXCEPT !.items = <<>>, !.cap = capacity]

Capacity(q) == q.cap

ToSlice(q) == q.items

Size(q) == Len(q.items)

\* append(s[:i], s[i+1:]...), with positions counted from 1.
RemoveAt(seq, i) == SubSeq(seq, 1, i - 1) \o SubSeq(seq, i + 1, Len(seq))

DeleteInclusiveBound(q, index) ==
    IF index < 0 \/ index > Len(q.items)
    THEN [q |-> q, err |-> TRUE]
    ELSE [q |-> [q EXCEPT !.items = RemoveAt(q.items, index + 1)],
          err |-> FALSE]

\* Delete: the queue after the call and whether an error is returned.
Delete(q, index) ==
    IF index < 0 \/ index >= Len(q.items)
    THEN [q |-> q, err |-> TRUE]
    ELSE [q |-> [items |-> RemoveAt(q.items, index + 1),
                 keys |-> [k \in {x \in DOMAIN q.keys : q.keys[x] # index} |->
                              IF q.keys[k] > index THEN q.keys[k] - 1
                              ELSE q.keys[k]],
                 cap |-> q.cap],
          err |-> FALSE]

FindIndexByKey(q, key) ==
    IF key \in DOMAIN q.keys THEN [index |-> q.keys[key], found |-> TRUE]
    ELSE [index |-> 0, found |-> FALSE]

EnqueueWithKey(q, key, item) ==
    [items |-> Append(q.items, item),
     keys  |-> SetKey(q.keys, key, Len(q.items)),
     cap   |-> GrowCap(q.cap, Len(q.items) + 1)]

\* The zero value of the item type.
ZeroValue == [key |-> "", id |-> 0]

DequeueLast(q) ==
    IF Len(q.items) = 0
    THEN [q |-> q, item |-> ZeroValue, ok |-> FALSE]
    ELSE [q |-> [q EXCEPT !.items = SubSeq(q.items, 1, Len(q.items) - 1)],
          item |-> q.items[Len(q.items)], ok |-> TRUE]

\* unsolvedCap of NewEntryPointIntent.
unsolvedCap == 5

\* Dequeue: the queue after the call, the item and the flag returned.
Dequeue(q) ==
    IF Len(q.items) = 0
    THEN [q |-> q, item |-> ZeroValue, ok |-> FALSE]
    ELSE [q |-> [q EXCEPT !.items = Tail(q.items), !.cap = @ - 1],
          item |-> q.items[1], ok |-> TRUE]

-----------------------------------------------------------------------------
(* The intent pipeline of pkg/client/solveintents.go.                      *)

Intent(hash, status, createdAt, expirationAt, calldata) ==
    [Hash |-> hash, Status |-> status, CreatedAt |-> createdAt,
     ExpirationAt |-> expirationAt, CallData |-> calldata]

NewEntryPointIntent ==
    [Unsolved |-> NewQueue(unsolvedCap), Buffer |-> <<>>, InvalidIntents |-> 0]

\* identifyIntent that stamps createdAt with the time of the call whatever
\* the intent carried.
identifyIntentStampsAlways(ep, userOp, t) ==
    LET opHash == GetUserOpHash(userOp)
        intent == Intent(opHash, "Received", t, t + ttl, 0)
    IN  IF ~HasIntent(userOp) THEN [ep |-> ep, ok |-> FALSE]
        ELSE IF ~DecodesAsIntent(userOp)
        THEN [ep |-> [ep EXCEPT !.InvalidIntents = @ + 1], ok |-> FALSE]
        ELSE [ep |-> [ep EXCEPT !.Buffer = SetKey(@, opHash, userOp),
                                !.Unsolved = EnqueueHead(@, opHash, intent)],
              ok |-> TRUE]

\* identifyIntent that stores the operation in Buffer before it decodes
\* the calldata.
identifyIntentBuffersFirst(ep, userOp, t) ==
    LET opHash    == GetUserOpHash(userOp)
        createdAt == IF userOp.CallData.createdAt = 0 THEN t
                     ELSE userOp.CallData.createdAt
        expiresAt == IF userOp.CallData.expirationAt = 0 THEN createdAt + ttl
                     ELSE userOp.CallData.expirationAt
        intent    == Intent(opHash, "Received", createdAt, expiresAt, 0)
    IN  IF ~HasIntent(userOp) THEN [ep |-> ep, ok |-> FALSE]
        ELSE IF ~DecodesAsIntent(userOp)
        THEN [ep |-> [ep EXCEPT !.Buffer = SetKey(@, opHash, userOp),
                                !.InvalidIntents = @ + 1], ok |-> FALSE]
        ELSE [ep |-> [ep EXCEPT !.Buffer = SetKey(@, opHash, userOp),
                                !.Unsolved = EnqueueHead(@, opHash, intent)],
              ok |-> TRUE]

\* identifyIntent: the pipeline state after the call and the value returned.
identifyIntent(ep, userOp, t) ==
    LET opHash    == GetUserOpHash(userOp)
        createdAt == IF userOp.CallData.createdAt = 0 THEN t
                     ELSE userOp.CallData.createdAt
        expiresAt == IF userOp.CallData.expirationAt = 0 THEN createdAt + ttl
                     ELSE userOp.CallData.expirationAt
        intent    == Intent(opHash, "Received", createdAt, expiresAt, 0)
    IN  IF ~HasIntent(userOp) THEN [ep |-> ep, ok |-> FALSE]
        ELSE IF ~DecodesAsIntent(userOp)
        THEN [ep |-> [ep EXCEPT !.InvalidIntents = @ + 1], ok |-> FALSE]
        ELSE [ep |-> [ep EXCEPT !.Buffer = SetKey(@, opHash, userOp),
                                !.Unsolved = EnqueueHead(@, opHash, intent)],
              ok |-> TRUE]

\* processIntent: nothing happens for an operation that is no intent.
processIntent(ep, userOp, t) ==
    IF ~HasIntent(userOp) THEN ep ELSE identifyIntent(ep, userOp, t).ep

\* Mempool.AddOp / Client.addToMemPool: the operation is stored under its hash.
addToMemPool(mp, userOp) == SetKey(mp, GetUserOpHash(userOp), userOp)

\* json.Decode(&body) writes the i-th returned intent into the i-th element of
\* the slice that was sent; the slice `intents` keeps its length, so elements
\* past the end of the response stay as they were sent.
DecodeInto(intents, returned) ==
    [i \in 1..Len(intents) |-> IF i <= Len(returned) THEN returned[i] ELSE intents[i]]

Drop(f, k) == [x \in DOMAIN f \ {k} |-> f[x]]

\* The loop of sendToSolver over the decoded intents (lines 83-107), from the
\* i-th element on.  st = [Unsolved, Buffer, solvedOps, crashed].
RECURSIVE solverLoop(_, _, _, _)
solverLoop(intents, i, t, st) ==
    IF i > Len(intents) \/ st.crashed THEN st
    ELSE LET intent == intents[i] IN
         IF intent.ExpirationAt < t
         THEN solverLoop(intents, i + 1, t, st)
         ELSE IF intent.Status = "Solved"
         THEN IF intent.Hash \notin DOMAIN st.Buffer
              THEN [st EXCEPT !.crashed = TRUE]
              ELSE solverLoop(intents, i + 1, t,
                     [st EXCEPT
                        !.solvedOps = Append(@, [st.Buffer[intent.Hash] EXCEPT
                                                   !.CallData = EVM(intent.CallData)]),
                        !.Buffer = Drop(@, intent.Hash)])
         ELSE IF intent.Status = "Unsolved"
         THEN solverLoop(intents, i + 1, t,
                [st EXCEPT !.Unsolved = EnqueueHead(@, intent.Hash, intent)])
         ELSE solverLoop(intents, i + 1, t, st)

(* What the Solver may answer to the intents it was sent: any of them, each  *)
(* at most once, in any order, each with any status and, when Solved, with   *)
(* calldata.  The other fields come back as they were sent.                  *)

SolverStatuses == {"Solved", "Unsolved", "Expired", "Invalid", "Received"}
SolvedCode     == 7

Answer(intent, status) ==
    [intent EXCEPT !.Status = status,
                   !.CallData = IF status = "Solved" THEN SolvedCode ELSE 0]

Injective(f) == \A a, b \in DOMAIN f : f[a] = f[b] => a = b

Picks(n) == UNION {{f \in [1..m -> 1..n] : Injective(f)} : m \in 0..n}

Responses(sent) ==
    UNION {{[i \in DOMAIN pick |-> Answer(sent[pick[i]], sts[i])] :
               sts \in [DOMAIN pick -> SolverStatuses]} :
           pick \in Picks(Len(sent))}

-----------------------------------------------------------------------------
(* Steps of the pipeline.  `last` records the step just taken: its name,   *)
(* the intents a tick sent, the intents the Solver returned, and what an   *)
(* RPC call returned.                                                      *)

Step(act, sent, returned, ret) ==
    [act |-> act, sent |-> sent, returned |-> returned, ret |-> ret]

ep == [Unsolved |-> Unsolved, Buffer |-> Buffer, InvalidIntents |-> InvalidIntents]

\* eth_sendUserOperation: the operation is added to the mempool, and the
\* pipeline is told of an operation that has an intent; an intent that does
\* not decode is rejected.
SendUserOperation(op) ==
    /\ ~crashed
    /\ calls < env.calls
    /\ calls' = calls + 1
    /\ LET after    == processIntent(ep, op, now)
           rejected == HasIntent(op) /\ ~DecodesAsIntent(op)
           hash     == GetUserOpHash(op)
       IN  /\ Unsolved' = after.Unsolved
           /\ Buffer' = after.Buffer
           /\ InvalidIntents' = after.InvalidIntents
           /\ mempool' = IF rejected THEN mempool ELSE addToMemPool(mempool, op)
           /\ admittedAt' = IF DecodesAsIntent(op) /\ hash \notin DOMAIN admittedAt
                            THEN SetKey(admittedAt, hash, now) ELSE admittedAt
           /\ last' = Step("SendUserOperation", <<>>, <<>>,
                           IF rejected THEN "error" ELSE "ok")
    /\ UNCHANGED <<now, env, solvedOps, adding, crashed>>
    /\ UNCHANGED <<batchVars, raceVars, queueVars, clientVars>>

\* A tick that finds the queue empty (lines 40-45).
TickEmpty ==
    /\ ~crashed
    /\ now < env.horizon
    /\ ToSlice(Unsolved) = <<>>
    /\ now' = now + TickPeriod
    /\ last' = Step("TickEmpty", <<>>, <<>>, "")
    /\ UNCHANGED <<env, Unsolved, Buffer, InvalidIntents, solvedOps,
                   adding, mempool, crashed, admittedAt, calls>>
    /\ UNCHANGED <<batchVars, raceVars, queueVars, clientVars>>

\* A tick whose POST fails (lines 40-74): the queue was reset before the POST.
TickTransportError ==
    /\ ~crashed
    /\ now < env.horizon
    /\ ToSlice(Unsolved) # <<>>
    /\ now' = now + TickPeriod
    /\ Unsolved' = Reset(Unsolved, Size(Unsolved))
    /\ last' = Step("TickTransportError", ToSlice(Unsolved), <<>>, "")
    /\ UNCHANGED <<env, Buffer, InvalidIntents, solvedOps, adding,
                   mempool, crashed, admittedAt, calls>>
    /\ UNCHANGED <<batchVars, raceVars, queueVars, clientVars>>

\* A tick whose POST is answered (lines 40-107).
TickResponse(returned) ==
    /\ ~crashed
    /\ now < env.horizon
    /\ ToSlice(Unsolved) # <<>>
    /\ now' = now + TickPeriod
    /\ LET intents == DecodeInto(ToSlice(Unsolved), returned)
           st == solverLoop(intents, 1, now',
                            [Unsolved |-> Reset(Unsolved, Size(Unsolved)),
                             Buffer |-> Buffer,
                             solvedOps |-> solvedOps, crashed |-> FALSE])
       IN  /\ Unsolved' = st.Unsolved
           /\ Buffer' = st.Buffer
           /\ solvedOps' = st.solvedOps
           /\ crashed' = st.crashed
    /\ last' = Step("TickResponse", ToSlice(Unsolved), returned, "")
    /\ UNCHANGED <<env, InvalidIntents, adding, mempool, admittedAt, calls>>
    /\ UNCHANGED <<batchVars, raceVars, queueVars, clientVars>>

\* processIntentUserOps: a solved operation is taken off the channel and a
\* goroutine is started for it (lines 194-198).
processIntentUserOps ==
    /\ ~crashed
    /\ solvedOps # <<>>
    /\ solvedOps' = Tail(solvedOps)
    /\ adding' = Append(adding, Head(solvedOps))
    /\ last' = Step("processIntentUserOps", <<>>, <<>>, "")
    /\ UNCHANGED <<now, env, Unsolved, Buffer, InvalidIntents,
                   mempool, crashed, admittedAt, calls>>
    /\ UNCHANGED <<batchVars, raceVars, queueVars, clientVars>>

\* One of the started goroutines adds its operation to the mempool
\* (lines 198-211).
addSolvedToMemPool(i) ==
    /\ ~crashed
    /\ i \in DOMAIN adding
    /\ mempool' = addToMemPool(mempool, adding[i])
    /\ adding' = RemoveAt(adding, i)
    /\ last' = Step("addToMemPool", <<>>, <<>>, "")
    /\ UNCHANGED <<now, env, Unsolved, Buffer, InvalidIntents,
                   solvedOps, crashed, admittedAt, calls>>
    /\ UNCHANGED <<batchVars, raceVars, queueVars, clientVars>>

-----------------------------------------------------------------------------
(* Intent predicates of pkg/userop/intent.go (second generation), which    *)
(* delegate to the model library: an operation has an intent when the JSON *)
(* of the intent is its calldata or follows its signature, and has EVM     *)
(* instructions when they are its calldata or follow its signature.        *)

modelHasIntent(op) == op.CallData.kind = "intent" \/ op.Signature.tail = "intent"

HasEVMInstructions(op) == op.CallData.kind = "evm" \/ op.Signature.tail = "evm"

IsUnsolvedIntent(op) == modelHasIntent(op) /\ ~HasEVMInstructions(op)

IsIntentExecutable(op) == modelHasIntent(op) /\ HasEVMInstructions(op)

IsSolvedIntent(op) == IsIntentExecutable(op)

-----------------------------------------------------------------------------
(* The batch handlers.  ctx = [Batch, PendingRemoval]; indices are the     *)
(* code's, counted from 0.                                                 *)

\* BatchHandlerCtx.MarkOpIndexForRemoval: the operation at the index leaves
\* the batch, the operations after it move up, and it joins PendingRemoval.
MarkOpIndexForRemoval(ctx, index) ==
    IF index + 1 \in DOMAIN ctx.Batch
    THEN [Batch |-> RemoveAt(ctx.Batch, index + 1),
          PendingRemoval |-> Append(ctx.PendingRemoval, ctx.Batch[index + 1])]
    ELSE ctx

\* The indices of the operations of the batch that have an intent.
IntentIndices(userOpBatch) ==
    SelectSeq([i \in 1..Len(userOpBatch) |-> i - 1],
              LAMBDA idx : modelHasIntent(userOpBatch[idx + 1]))

\* bufferIntentOps: the body for the Solver (clones of the intent operations
\* and, for each, its hash and the status Received) and the batchIndices map
\* from the hash to the index in the batch.
bufferIntentOps(userOpBatch) ==
    LET idxs == IntentIndices(userOpBatch)
        hashAt(idx) == GetUserOpHash(userOpBatch[idx + 1])
        range == {idxs[j] : j \in DOMAIN idxs}
    IN  [UserOps |-> [j \in DOMAIN idxs |-> userOpBatch[idxs[j] + 1]],
         UserOpsExt |-> [j \in DOMAIN idxs |->
                            [OriginalHashValue |-> hashAt(idxs[j]),
                             ProcessingStatus |-> "Received"]],
         batchIndices |-> [h \in {hashAt(idx) : idx \in range} |->
                             CHOOSE idx \in range :
                                /\ hashAt(idx) = h
                                /\ \A other \in range :
                                      hashAt(other) = h => other <= idx]]

\* json.Decode(&body) in IntentsHandler.sendToSolver, which received the body
\* by value: the slices share their arrays with the caller's, whose lengths
\* do not change.
DecodeBody(body, returned) ==
    [body EXCEPT !.UserOps = DecodeInto(@, returned.UserOps),
                 !.UserOpsExt = DecodeInto(@, returned.UserOpsExt)]

\* The assignments of the Solved case (lines 125-133).
SolvedValues(op, solved) ==
    [op EXCEPT !.CallData = solved.CallData,
               !.Signature = solved.Signature,
               !.CallGasLimit = solved.CallGasLimit,
               !.VerificationGasLimit = solved.VerificationGasLimit,
               !.PreVerificationGas = solved.PreVerificationGas,
               !.MaxFeePerGas = solved.MaxFeePerGas,
               !.MaxPriorityFeePerGas = solved.MaxPriorityFeePerGas]

OpId(op) == <<op.Sender, op.Nonce>>

\* The loop of SolveIntents over body.UserOpsExt (lines 114-138), from index
\* idx on.  st = [ctx, ret, applied]; applied is the history of the Solved
\* cases: the hash of the entry, the operation written to, before and after.
RECURSIVE solveLoop(_, _, _)
solveLoop(body, idx, st) ==
    IF idx >= Len(body.UserOpsExt) \/ st.ret # "nil" THEN st
    ELSE LET opExt == body.UserOpsExt[idx + 1]
             batchIndex == IF opExt.OriginalHashValue \in DOMAIN body.batchIndices
                           THEN body.batchIndices[opExt.OriginalHashValue]
                           ELSE 0
         IN  IF opExt.ProcessingStatus \in {"Unsolved", "Expired", "Invalid", "Received"}
             THEN solveLoop(body, idx + 1,
                    [st EXCEPT !.ctx = MarkOpIndexForRemoval(@, batchIndex)])
             ELSE IF opExt.ProcessingStatus = "Solved"
             THEN IF batchIndex + 1 \notin DOMAIN st.ctx.Batch
                  THEN [st EXCEPT !.ret = "panic"]
                  ELSE LET before == st.ctx.Batch[batchIndex + 1]
                           after == SolvedValues(before, body.UserOps[idx + 1])
                       IN  solveLoop(body, idx + 1,
                             [st EXCEPT
                                !.ctx.Batch[batchIndex + 1] = after,
                                !.applied = Append(@,
                                    [entry |-> opExt.OriginalHashValue,
                                     target |-> OpId(before),
                                     before |-> before, after |-> after])])
             ELSE [st EXCEPT !.ret = "error"]

(* What the Solver may answer to a body: any of the operations it was sent, *)
(* each at most once, in any order; each with a status, among them one the  *)
(* bundler does not know, or Solved with a solution.  A solution puts the   *)
(* EVM instructions after the signature or in the calldata, and keeps or    *)
(* changes the gas and fee fields.                                          *)

Solutions == {[status |-> "Solved", shape |-> "tail", gas |-> 1],
              [status |-> "Solved", shape |-> "tail", gas |-> 2],
              [status |-> "Solved", shape |-> "calldata", gas |-> 2]}

Choices == Solutions \cup
           {[status |-> s, shape |-> "none", gas |-> 1] :
               s \in {"Unsolved", "Expired", "Invalid", "Received", "Unknown"}}

SolvedBy(op, sol) ==
    [op EXCEPT !.CallData = IF sol.shape = "calldata" THEN EVM(SolvedCode) ELSE @,
               !.Signature = [@ EXCEPT !.tail = IF sol.shape = "calldata"
                                                THEN "intent" ELSE "evm"],
               !.CallGasLimit = Gas(sol.gas).CallGasLimit,
               !.VerificationGasLimit = Gas(sol.gas).VerificationGasLimit,
               !.PreVerificationGas = Gas(sol.gas).PreVerificationGas,
               !.MaxFeePerGas = Gas(sol.gas).MaxFeePerGas,
               !.MaxPriorityFeePerGas = Gas(sol.gas).MaxPriorityFeePerGas]

BodyResponses(body) ==
    UNION {{[UserOps |-> [i \in DOMAIN pick |->
                            IF ch[i].status = "Solved"
                            THEN SolvedBy(body.UserOps[pick[i]], ch[i])
                            ELSE body.UserOps[pick[i]]],
             UserOpsExt |-> [i \in DOMAIN pick |->
                            [OriginalHashValue |->
                                body.UserOpsExt[pick[i]].OriginalHashValue,
                             ProcessingStatus |-> ch[i].status]]] :
               ch \in [DOMAIN pick -> Choices]} :
           pick \in Picks(Len(body.UserOps))}

-----------------------------------------------------------------------------
(* A round of the bundler: a batch is drained from the mempool and handed  *)
(* to SolveIntents and then to the Relayer; a handler that returns an      *)
(* error or panics ends the round.                                         *)

ctx == [Batch |-> Batch, PendingRemoval |-> PendingRemoval]

NoHistory == [drained |-> <<>>, answered |-> FALSE, response |-> <<>>,
              applied |-> <<>>, relayed |-> FALSE, received |-> <<>>,
              reverts |-> <<>>, estErr |-> FALSE, hoErr |-> FALSE,
              solverErr |-> FALSE, pending |-> <<>>]

Drain(batch) ==
    /\ pc = "idle"
    /\ Batch' = batch
    /\ PendingRemoval' = <<>>
    /\ pc' = "solve"
    /\ handlerRet' = "nil"
    /\ handleOpsCalls' = <<>>
    /\ hist' = [NoHistory EXCEPT !.drained = batch]
    /\ UNCHANGED <<tickVars, raceVars, queueVars, clientVars>>

\* SolveIntents on a batch without intents (lines 96-108).
SolveIntentsNoIntents ==
    /\ pc = "solve"
    /\ Len(bufferIntentOps(Batch).UserOps) = 0
    /\ pc' = "relay"
    /\ handlerRet' = "nil"
    /\ UNCHANGED <<Batch, PendingRemoval, handleOpsCalls, hist>>
    /\ UNCHANGED <<tickVars, raceVars, queueVars, clientVars>>

\* SolveIntents when the POST or the decoding fails (lines 110-112).
SolveIntentsError ==
    /\ pc = "solve"
    /\ Len(bufferIntentOps(Batch).UserOps) > 0
    /\ pc' = "done"
    /\ handlerRet' = "error"
    /\ hist' = [hist EXCEPT !.solverErr = TRUE]
    /\ UNCHANGED <<Batch, PendingRemoval, handleOpsCalls>>
    /\ UNCHANGED <<tickVars, raceVars, queueVars, clientVars>>

\* SolveIntents when the Solver answers (lines 96-140).
SolveIntentsResponse(returned) ==
    /\ pc = "solve"
    /\ Len(bufferIntentOps(Batch).UserOps) > 0
    /\ LET body == DecodeBody(bufferIntentOps(Batch), returned)
           st == solveLoop(body, 0, [ctx |-> ctx, ret |-> "nil", applied |-> <<>>])
       IN  /\ Batch' = st.ctx.Batch
           /\ PendingRemoval' = st.ctx.PendingRemoval
           /\ handlerRet' = st.ret
           /\ pc' = IF st.ret = "nil" THEN "relay" ELSE "done"
           /\ hist' = [hist EXCEPT !.answered = TRUE, !.response = returned,
                                   !.applied = st.applied]
    /\ UNCHANGED handleOpsCalls
    /\ UNCHANGED <<tickVars, raceVars, queueVars, clientVars>>

\* The estimation loop of the Relayer (lines 133-145): each revert marks the
\* index it names for removal, and the options of the call stay the same.
RECURSIVE markReverts(_, _, _)
markReverts(c, reverts, i) ==
    IF i > Len(reverts) THEN c
    ELSE markReverts(MarkOpIndexForRemoval(c, reverts[i]), reverts, i + 1)

NonIntents(batch) == SelectSeq(batch, LAMBDA op : ~modelHasIntent(op))

SolvedIntents(batch) == SelectSeq(batch, IsSolvedIntent)

\* A Relayer that goes on to handleOps after an error of the estimation.
relayBatchIgnoringEstErr(c, reverts, estErr, hoErr) ==
    LET intentsBatch == SolvedIntents(c.Batch)
        nonIntentsBatch == NonIntents(c.Batch)
    IN  IF Len(nonIntentsBatch) > 0
        THEN [ctx |-> markReverts(c, reverts, 1),
              ret |-> IF hoErr THEN "error" ELSE "nil",
              calls |-> <<nonIntentsBatch>>]
        ELSE IF Len(intentsBatch) > 0
        THEN [ctx |-> c, ret |-> "nil", calls |-> <<intentsBatch>>]
        ELSE [ctx |-> c, ret |-> "nil", calls |-> <<>>]

\* Relayer.SendUserOperation (lines 105-175) on the context c, when the
\* estimation reverts with the indices `reverts` and then fails (estErr) or
\* succeeds, and handleOps fails (hoErr) or succeeds: the context after it,
\* what it returns and the batches it passes to handleOps.
relayBatch(c, reverts, estErr, hoErr) ==
    LET intentsBatch == SolvedIntents(c.Batch)
        nonIntentsBatch == NonIntents(c.Batch)
    IN  IF Len(nonIntentsBatch) > 0
        THEN IF estErr
             THEN [ctx |-> markReverts(c, reverts, 1), ret |-> "error",
                   calls |-> <<>>]
             ELSE [ctx |-> markReverts(c, reverts, 1),
                   ret |-> IF hoErr THEN "error" ELSE "nil",
                   calls |-> <<nonIntentsBatch>>]
        ELSE IF Len(intentsBatch) > 0
        THEN [ctx |-> c, ret |-> "nil", calls |-> <<intentsBatch>>]
        ELSE [ctx |-> c, ret |-> "nil", calls |-> <<>>]

RelayerSendUserOperation(reverts, estErr, hoErr) ==
    /\ pc = "relay"
    /\ LET out == relayBatch(ctx, reverts, estErr, hoErr)
       IN  /\ Batch' = out.ctx.Batch
           /\ PendingRemoval' = out.ctx.PendingRemoval
           /\ handlerRet' = out.ret
           /\ handleOpsCalls' = handleOpsCalls \o out.calls
    /\ pc' = "done"
    /\ hist' = [hist EXCEPT !.relayed = TRUE, !.received = Batch,
                            !.pending = PendingRemoval,
                            !.reverts = reverts, !.estErr = estErr,
                            !.hoErr = hoErr]
    /\ UNCHANGED <<tickVars, raceVars, queueVars, clientVars>>

\* The Relayer taken one estimation at a time.  The batches are filtered
\* and the options of the call built from nonIntentsBatch (lines 107-127):
\* hist.received keeps the batch they were built from.
relayerGetCallOptions ==
    /\ pc = "relay"
    /\ Len(NonIntents(Batch)) > 0
    /\ pc' = "estimate"
    /\ hist' = [hist EXCEPT !.relayed = TRUE, !.received = Batch,
                            !.pending = PendingRemoval]
    /\ UNCHANGED <<Batch, PendingRemoval, handlerRet, handleOpsCalls>>
    /\ UNCHANGED <<tickVars, raceVars, queueVars, clientVars>>

\* EstimateHandleOpsGas(&opts) reverts and names an operation of the batch
\* of opts (lines 131-138): the index is marked for removal in the context,
\* and the loop tests len(nonIntentsBatch), which nothing changed, again.
estimateReverts(opIndex) ==
    /\ pc = "estimate"
    /\ Len(hist.reverts) < MaxEstimations
    /\ opIndex \in 0..(Len(NonIntents(hist.received)) - 1)
    /\ LET c == MarkOpIndexForRemoval(ctx, opIndex)
       IN  /\ Batch' = c.Batch
           /\ PendingRemoval' = c.PendingRemoval
    /\ hist' = [hist EXCEPT !.reverts = Append(@, opIndex)]
    /\ UNCHANGED <<pc, handlerRet, handleOpsCalls>>
    /\ UNCHANGED <<tickVars, raceVars, queueVars, clientVars>>

\* EstimateHandleOpsGas returns an error (lines 133-134).
estimateFails ==
    /\ pc = "estimate"
    /\ pc' = "done"
    /\ handlerRet' = "error"
    /\ hist' = [hist EXCEPT !.estErr = TRUE]
    /\ UNCHANGED <<Batch, PendingRemoval, handleOpsCalls>>
    /\ UNCHANGED <<tickVars, raceVars, queueVars, clientVars>>

\* EstimateHandleOpsGas returns an estimate, and handleOps is called with
\* the options built before the loop (lines 139-152).
estimateReturns(hoErr) ==
    /\ pc = "estimate"
    /\ pc' = "done"
    /\ handlerRet' = IF hoErr THEN "error" ELSE "nil"
    /\ handleOpsCalls' = Append(handleOpsCalls, NonIntents(hist.received))
    /\ hist' = [hist EXCEPT !.hoErr = hoErr]
    /\ UNCHANGED <<Batch, PendingRemoval>>
    /\ UNCHANGED <<tickVars, raceVars, queueVars, clientVars>>

\* The round is over: the context is dropped.
EndRound ==
    /\ pc = "done"
    /\ Batch' = <<>>
    /\ PendingRemoval' = <<>>
    /\ pc' = "idle"
    /\ handlerRet' = "nil"
    /\ handleOpsCalls' = <<>>
    /\ hist' = NoHistory
    /\ UNCHANGED <<tickVars, raceVars, queueVars, clientVars>>

-----------------------------------------------------------------------------
(* processIntent and the tickers, step by step.  RPC handlers run in their *)
(* own goroutines and processIntent takes no lock: between its test of     *)
(* entryPointsIntents[entrypoint] (line 175), its assignment (line 177),   *)
(* its second read (line 185) and identifyIntent (line 187) the other      *)
(* goroutines run.  Each SetTickerFunc (line 182) starts a ticker that     *)
(* calls the function of its own EntryPointIntents, one call at a time.    *)

IdleHandler == [pc |-> "idle", op |-> <<>>, sawNil |-> FALSE, ep |-> 0]

\* An RPC handler enters processIntent with an intent (lines 161-173).
rpcEnter(h, op) ==
    /\ rpc[h].pc = "idle"
    /\ HasIntent(op)
    /\ rpc' = [rpc EXCEPT ![h] = [pc |-> "test", op |-> op, sawNil |-> FALSE, ep |-> 0]]
    /\ UNCHANGED <<entryPointsIntents, created>>
    /\ UNCHANGED <<tickVars, batchVars, queueVars, clientVars>>

\* The test of line 175.
rpcTestNil(h) ==
    /\ rpc[h].pc = "test"
    /\ rpc' = [rpc EXCEPT ![h].pc = IF entryPointsIntents = 0 THEN "create" ELSE "read",
                          ![h].sawNil = (entryPointsIntents = 0)]
    /\ UNCHANGED <<entryPointsIntents, created>>
    /\ UNCHANGED <<tickVars, batchVars, queueVars, clientVars>>

\* Lines 176-182: a new EntryPointIntents is stored and its ticker started.
rpcCreate(h) ==
    /\ rpc[h].pc = "create"
    /\ created' = Append(created, [Unsolved |-> NewEntryPointIntent.Unsolved,
                                   Buffer |-> NewEntryPointIntent.Buffer,
                                   InvalidIntents |-> NewEntryPointIntent.InvalidIntents,
                                   posting |-> FALSE, sent |-> <<>>,
                                   ticks |-> 0])
    /\ entryPointsIntents' = Len(created) + 1
    /\ rpc' = [rpc EXCEPT ![h].pc = "read"]
    /\ UNCHANGED <<tickVars, batchVars, queueVars, clientVars>>

\* The read of line 185.
rpcRead(h) ==
    /\ rpc[h].pc = "read"
    /\ rpc' = [rpc EXCEPT ![h].pc = "identify", ![h].ep = entryPointsIntents]
    /\ UNCHANGED <<entryPointsIntents, created>>
    /\ UNCHANGED <<tickVars, batchVars, queueVars, clientVars>>

\* identifyIntent on the EntryPointIntents that was read (line 187).
rpcIdentify(h) ==
    /\ rpc[h].pc = "identify"
    /\ LET e == rpc[h].ep
           cur == [Unsolved |-> created[e].Unsolved, Buffer |-> created[e].Buffer,
                   InvalidIntents |-> created[e].InvalidIntents]
           after == identifyIntent(cur, rpc[h].op, now).ep
       IN  created' = [created EXCEPT ![e].Unsolved = after.Unsolved,
                                      ![e].Buffer = after.Buffer,
                                      ![e].InvalidIntents = after.InvalidIntents]
    /\ rpc' = [rpc EXCEPT ![h].pc = "done"]
    /\ UNCHANGED entryPointsIntents
    /\ UNCHANGED <<tickVars, batchVars, queueVars, clientVars>>

\* The ticker of an EntryPointIntents fires on a queue that is not empty:
\* the queue is reset and the POST is under way (lines 40-69).  MaxTime
\* ticks of each ticker are followed.
tickPost(e) ==
    /\ ~crashed
    /\ ~created[e].posting
    /\ created[e].ticks < MaxTime
    /\ ToSlice(created[e].Unsolved) # <<>>
    /\ created' = [created EXCEPT ![e].posting = TRUE,
                                  ![e].ticks = @ + 1,
                                  ![e].sent = ToSlice(created[e].Unsolved),
                                  ![e].Unsolved = Reset(@, Size(@))]
    /\ UNCHANGED <<entryPointsIntents, rpc>>
    /\ UNCHANGED <<tickVars, batchVars, queueVars, clientVars>>

\* The same tick in the steps the Queue's mutex allows to interleave with
\* the handlers.  ToSlice (line 40) copies the items under the lock: the
\* snapshot is held in `sent` while the POST is not yet under way.
tickToSlice(e) ==
    /\ ~crashed
    /\ ~created[e].posting
    /\ created[e].sent = <<>>
    /\ created[e].ticks < MaxTime
    /\ ToSlice(created[e].Unsolved) # <<>>
    /\ created' = [created EXCEPT ![e].ticks = @ + 1,
                                  ![e].sent = ToSlice(created[e].Unsolved)]
    /\ UNCHANGED <<entryPointsIntents, rpc>>
    /\ UNCHANGED <<tickVars, batchVars, queueVars, clientVars>>

\* Reset(len(intents)) (line 47) takes the lock again, and the POST starts.
tickReset(e) ==
    /\ ~crashed
    /\ ~created[e].posting
    /\ created[e].sent # <<>>
    /\ created' = [created EXCEPT ![e].posting = TRUE,
                                  ![e].Unsolved = Reset(@, Len(created[e].sent))]
    /\ UNCHANGED <<entryPointsIntents, rpc>>
    /\ UNCHANGED <<tickVars, batchVars, queueVars, clientVars>>

\* The POST fails (lines 69-74).
tickPostFails(e) ==
    /\ ~crashed
    /\ created[e].posting
    /\ created' = [created EXCEPT ![e].posting = FALSE, ![e].sent = <<>>]
    /\ UNCHANGED <<entryPointsIntents, rpc>>
    /\ UNCHANGED <<tickVars, batchVars, queueVars, clientVars>>

\* The POST is answered (lines 77-107).
tickPostReturns(e, returned) ==
    /\ ~crashed
    /\ created[e].posting
    /\ LET intents == DecodeInto(created[e].sent, returned)
           st == solverLoop(intents, 1, now,
                            [Unsolved |-> created[e].Unsolved,
                             Buffer |-> created[e].Buffer,
                             solvedOps |-> solvedOps, crashed |-> FALSE])
       IN  /\ created' = [created EXCEPT ![e].posting = FALSE, ![e].sent = <<>>,
                                         ![e].Unsolved = st.Unsolved,
                                         ![e].Buffer = st.Buffer]
           /\ solvedOps' = st.solvedOps
           /\ crashed' = st.crashed
    /\ UNCHANGED <<entryPointsIntents, rpc>>
    /\ UNCHANGED <<now, env, Unsolved, Buffer, InvalidIntents, adding, mempool,
                   admittedAt, calls, last>>
    /\ UNCHANGED <<batchVars, queueVars, clientVars>>

-----------------------------------------------------------------------------
(* The operations submitted in Spec: two intents of different senders, one *)
(* that gives no expiration and one that expires at second 2, JSON that is *)
(* no intent, and a conventional operation.                                *)

IntentA == UserOp("s1", 1, IntentJSON(0, 0), "none", 1)
IntentB == UserOp("s2", 1, IntentJSON(1, 2), "none", 1)
NotAnIntent == UserOp("s1", 2, OtherJSON, "none", 1)
Conventional == UserOp("s2", 2, EVM(1), "none", 1)

InitTick(h, ops, n) ==
    /\ now = 1
    /\ env = [horizon |-> h, ops |-> ops, calls |-> n]
    /\ Unsolved = NewEntryPointIntent.Unsolved
    /\ Buffer = NewEntryPointIntent.Buffer
    /\ InvalidIntents = NewEntryPointIntent.InvalidIntents
    /\ solvedOps = <<>>
    /\ adding = <<>>
    /\ mempool = <<>>
    /\ crashed = FALSE
    /\ admittedAt = <<>>
    /\ calls = 0
    /\ last = Step("Init", <<>>, <<>>, "")

NoRound ==
    /\ Batch = <<>>
    /\ PendingRemoval = <<>>
    /\ pc = "idle"
    /\ handlerRet = "nil"
    /\ handleOpsCalls = <<>>
    /\ hist = NoHistory

NoRace ==
    /\ entryPointsIntents = 0
    /\ created = <<>>
    /\ rpc = [g \in 1..MaxHandlers |-> IdleHandler]

IdleWorker == [pc |-> "call", i |-> 0, local |-> <<>>]

NoWorkers ==
    /\ mu = 0
    /\ workers = [g \in 1..2 |-> IdleWorker]

EmptyPool == pool = <<>>

InitPipeline(h, ops, n) ==
    InitTick(h, ops, n) /\ NoRound /\ NoRace /\ NoWorkers /\ EmptyPool

Init == InitPipeline(MaxTime, {IntentA, IntentB, NotAnIntent, Conventional}, MaxCalls)

Next ==
    \/ \E op \in env.ops : SendUserOperation(op)
    \/ TickEmpty
    \/ TickTransportError
    \/ \E returned \in Responses(ToSlice(Unsolved)) : TickResponse(returned)
    \/ processIntentUserOps
    \/ \E i \in DOMAIN adding : addSolvedToMemPool(i)

vars == <<tickVars, batchVars, raceVars, queueVars, clientVars>>

Spec == Init /\ [][Next]_vars

-----------------------------------------------------------------------------
(* The Solver is down: every POST fails.                                   *)

InitOutage == InitPipeline(MaxTime, {IntentA, IntentB}, MaxCalls)

NextOutage ==
    \/ \E op \in env.ops : SendUserOperation(op)
    \/ TickEmpty
    \/ TickTransportError

SpecOutage == InitOutage /\ [][NextOutage]_vars

(* The pipeline with two intents of one sender, of nonces 1 and 2.         *)

IntentA2 == UserOp("s1", 2, IntentJSON(0, 0), "none", 1)

InitSameSender == InitPipeline(MaxTime, {IntentA, IntentA2}, MaxCalls)

SpecSameSender == InitSameSender /\ [][Next]_vars

(* Admission while the Solver is down, of every kind of operation.         *)

SpecAdmission == Init /\ [][NextOutage]_vars

(* The Solver answers Unsolved for every intent of every request.          *)

AllUnsolved(sent) == [i \in DOMAIN sent |-> Answer(sent[i], "Unsolved")]

TickUnsolved == TickResponse(AllUnsolved(ToSlice(Unsolved)))

NextUnsolved ==
    \/ \E op \in env.ops : SendUserOperation(op)
    \/ TickEmpty
    \/ TickUnsolved

SpecUnsolved == InitOutage /\ [][NextUnsolved]_vars

(* The pipeline followed for MaxOpTTL + TickPeriod seconds after the first *)
(* second, with an intent that gives no expiration and one that asks for a *)
(* long one; one call is made.                                             *)

IntentLong == UserOp("s2", 1, IntentJSON(0, 1000), "none", 1)

InitTTL == InitPipeline(1 + MaxOpTTL + 2 * TickPeriod, {IntentA, IntentLong}, 1)

SpecTTL == InitTTL /\ [][Next]_vars

(* The rounds of the bundler on batches of at most MaxBatch of these       *)
(* operations: three intents and three conventional operations.  The Relayer *)
(* sees at most MaxReverts reverts of the estimation.                      *)

IntentC == UserOp("s3", 1, IntentJSON(0, 0), "none", 1)
Conventional2 == UserOp("s3", 2, EVM(2), "none", 1)

Conventional3 == UserOp("s1", 3, EVM(3), "none", 1)

Pool == {IntentA, IntentB, IntentC, Conventional, Conventional2, Conventional3}

Batches == UNION {{b \in [1..m -> Pool] : Injective(b)} : m \in 1..MaxBatch}

RevertSeqs(n) == UNION {[1..m -> 0..(n - 1)] : m \in 0..MaxReverts}

InitBatch == InitPipeline(1, {}, 0)

NextBatch ==
    \/ \E batch \in Batches : Drain(batch)
    \/ SolveIntentsNoIntents
    \/ SolveIntentsError
    \/ /\ pc = "solve"
       /\ \E returned \in BodyResponses(bufferIntentOps(Batch)) :
             SolveIntentsResponse(returned)
    \/ /\ pc = "relay"
       /\ \E reverts \in RevertSeqs(Len(NonIntents(Batch))), estErr, hoErr \in BOOLEAN :
             RelayerSendUserOperation(reverts, estErr, hoErr)
    \/ EndRound

SpecBatch == InitBatch /\ [][NextBatch]_vars

(* The rounds of the bundler on batches without intents, the Relayer's     *)
(* estimation loop taken one estimation at a time.                         *)

NextEstimate ==
    \/ \E batch \in Batches : Drain(batch)
    \/ SolveIntentsNoIntents
    \/ relayerGetCallOptions
    \/ \E opIndex \in 0..(MaxBatch - 1) : estimateReverts(opIndex)
    \/ estimateFails
    \/ \E hoErr \in BOOLEAN : estimateReturns(hoErr)
    \/ EndRound

SpecEstimate == InitBatch /\ [][NextEstimate]_vars

(* The rounds of the bundler when the Solver may also answer one entry     *)
(* that names an intent which was not in the request.                      *)

ForeignResponses(batch) ==
    {[UserOps |-> <<IF ch.status = "Solved" THEN SolvedBy(op, ch) ELSE op>>,
      UserOpsExt |-> <<[OriginalHashValue |-> GetUserOpHash(op),
                        ProcessingStatus |-> ch.status]>>] :
        op \in {IntentA, IntentB, IntentC} \ {batch[i] : i \in DOMAIN batch},
        ch \in Choices}

NextForeign ==
    \/ \E batch \in Batches : Drain(batch)
    \/ SolveIntentsNoIntents
    \/ SolveIntentsError
    \/ /\ pc = "solve"
       /\ \E returned \in ForeignResponses(Batch) : SolveIntentsResponse(returned)
    \/ EndRound

SpecForeign == InitBatch /\ [][NextForeign]_vars

(* MaxHandlers RPC handlers, each submitting one intent, and the tickers   *)
(* they start.                                                             *)

NextRace ==
    \/ \E h \in DOMAIN rpc, op \in {IntentA, IntentB} : rpcEnter(h, op)
    \/ \E h \in DOMAIN rpc : rpcTestNil(h)
    \/ \E h \in DOMAIN rpc : rpcCreate(h)
    \/ \E h \in DOMAIN rpc : rpcRead(h)
    \/ \E h \in DOMAIN rpc : rpcIdentify(h)
    \/ \E e \in DOMAIN created : tickPost(e)
    \/ \E e \in DOMAIN created : tickPostFails(e)
    \/ \E e \in DOMAIN created :
          /\ created[e].posting
          /\ \E returned \in Responses(created[e].sent) : tickPostReturns(e, returned)

SpecRace == InitBatch /\ [][NextRace]_vars

(* The same handlers, with the tick taken in the steps of its calls on the *)
(* Queue.                                                                  *)

NextSnapshot ==
    \/ \E h \in DOMAIN rpc, op \in {IntentA, IntentB} : rpcEnter(h, op)
    \/ \E h \in DOMAIN rpc : rpcTestNil(h)
    \/ \E h \in DOMAIN rpc : rpcCreate(h)
    \/ \E h \in DOMAIN rpc : rpcRead(h)
    \/ \E h \in DOMAIN rpc : rpcIdentify(h)
    \/ \E e \in DOMAIN created : tickToSlice(e)
    \/ \E e \in DOMAIN created : tickReset(e)
    \/ \E e \in DOMAIN created : tickPostFails(e)
    \/ \E e \in DOMAIN created :
          /\ created[e].posting
          /\ \E returned \in Responses(created[e].sent) : tickPostReturns(e, returned)

SpecSnapshot == InitBatch /\ [][NextSnapshot]_vars

(* The Relayer on the batches it may be handed: at most MaxBatch of an     *)
(* intent that is solved, an intent that is not, and three conventional    *)
(* operations.                                                             *)

SolvedIntentA == SolvedBy(IntentA, [status |-> "Solved", shape |-> "calldata", gas |-> 2])

RelayPool == {SolvedIntentA, IntentB, Conventional, Conventional2, Conventional3}

RelayBatches == UNION {{b \in [1..m -> RelayPool] : Injective(b)} : m \in 1..MaxBatch}

InitRelay ==
    /\ InitTick(1, {}, 0)
    /\ NoRace
    /\ NoWorkers
    /\ EmptyPool
    /\ Batch \in RelayBatches
    /\ PendingRemoval = <<>>
    /\ pc = "relay"
    /\ handlerRet = "nil"
    /\ handleOpsCalls = <<>>
    /\ hist = [NoHistory EXCEPT !.drained = Batch]

NextRelay ==
    \/ /\ pc = "relay"
       /\ \E reverts \in RevertSeqs(Len(NonIntents(Batch))), estErr, hoErr \in BOOLEAN :
             RelayerSendUserOperation(reverts, estErr, hoErr)
    \/ EndRound

SpecRelay == InitRelay /\ [][NextRelay]_vars

-----------------------------------------------------------------------------
(* The Queue on its own: MaxOps calls of its methods, each of which holds  *)
(* the mutex of the queue from its first statement to its return.  Items   *)
(* record the key they were enqueued under and the number of the call.     *)

Keys == {"k1", "k2", "k3"}

QStep(act, key, item, before, out) ==
    [act |-> act, key |-> key, item |-> item, before |-> before, out |-> out]

NewItem(key) == [key |-> key, id |-> calls + 1]

QueueCall(act, key, item, after, out) ==
    /\ calls < env.calls
    /\ calls' = calls + 1
    /\ Unsolved' = after
    /\ last' = QStep(act, key, item, Unsolved, out)
    /\ UNCHANGED <<now, env, Buffer, InvalidIntents, solvedOps, adding, mempool,
                   crashed, admittedAt>>
    /\ UNCHANGED <<batchVars, raceVars, queueVars, clientVars>>

callEnqueueHead(key) ==
    QueueCall("EnqueueHead", key, NewItem(key),
              EnqueueHead(Unsolved, key, NewItem(key)), 0)

callEnqueueTail(key) ==
    QueueCall("EnqueueTail", key, NewItem(key),
              EnqueueTail(Unsolved, key, NewItem(key)), 0)

callEnqueueWithKey(key) ==
    QueueCall("EnqueueWithKey", key, NewItem(key),
              EnqueueWithKey(Unsolved, key, NewItem(key)), 0)

callDelete(index) ==
    QueueCall("Delete", "", ZeroValue, Delete(Unsolved, index).q,
              [index |-> index, err |-> Delete(Unsolved, index).err])

callDequeue ==
    QueueCall("Dequeue", "", ZeroValue, Dequeue(Unsolved).q,
              [item |-> Dequeue(Unsolved).item, ok |-> Dequeue(Unsolved).ok])

\* The capacities Reset is called with: none, that of TestQueueReset, and
\* one between.
Capacities == {0, 2, unsolvedCap}

callReset(capacity) ==
    QueueCall("Reset", "", ZeroValue, Reset(Unsolved, capacity),
              [capacity |-> capacity])

InitQueue == InitPipeline(1, {}, MaxOps)

NextQueue ==
    \/ \E key \in Keys : callEnqueueHead(key)
    \/ \E key \in Keys : callEnqueueTail(key)
    \/ \E key \in Keys : callEnqueueWithKey(key)
    \/ \E index \in -1..Len(Unsolved.items) : callDelete(index)
    \/ callDequeue
    \/ \E capacity \in Capacities : callReset(capacity)

SpecQueue == InitQueue /\ [][NextQueue]_vars

-----------------------------------------------------------------------------
(* Two goroutines enqueue on one Queue at the same time, the first with    *)
(* EnqueueTail and the second with EnqueueHead, MaxEnqueues times each.    *)
(* A call locks q.mu, reads q.items, stores the grown slice, updates the   *)
(* keys, and unlocks on return.                                            *)

MutexAlwaysFree(m) == TRUE

\* q.mu.Lock() returns only when no goroutine holds the mutex.
MutexFree(m) == m = 0

WorkerKey(g, i) == <<IF g = 1 THEN "key" ELSE "headKey", i>>

WorkerItem(g, i) == [key |-> WorkerKey(g, i), id |-> i]

SetWorker(g, w) == [workers EXCEPT ![g] = w]

KeepQueueOnly ==
    /\ UNCHANGED <<now, env, Buffer, InvalidIntents, solvedOps, adding, mempool,
                   crashed, admittedAt, calls, last>>
    /\ UNCHANGED <<batchVars, raceVars, clientVars>>

goLock(g) ==
    /\ workers[g].pc = "call"
    /\ workers[g].i < MaxEnqueues
    /\ MutexFree(mu)
    /\ mu' = g
    /\ workers' = SetWorker(g, [workers[g] EXCEPT !.pc = "locked"])
    /\ UNCHANGED Unsolved
    /\ KeepQueueOnly

goRead(g) ==
    /\ workers[g].pc = "locked"
    /\ workers' = SetWorker(g, [workers[g] EXCEPT !.pc = "read",
                                                  !.local = Unsolved.items])
    /\ UNCHANGED <<mu, Unsolved>>
    /\ KeepQueueOnly

WorkerCall(g, q) ==
    IF g = 1 THEN EnqueueTail(q, WorkerKey(g, workers[g].i),
                              WorkerItem(g, workers[g].i))
    ELSE EnqueueHead(q, WorkerKey(g, workers[g].i),
                     WorkerItem(g, workers[g].i))

\* q.items = append(...): the slice read before, with the item added.
goStore(g) ==
    /\ workers[g].pc = "read"
    /\ LET q == [Unsolved EXCEPT !.items = workers[g].local]
       IN Unsolved' = [Unsolved EXCEPT !.items = WorkerCall(g, q).items,
                                       !.cap = WorkerCall(g, q).cap]
    /\ workers' = SetWorker(g, [workers[g] EXCEPT !.pc = "stored"])
    /\ UNCHANGED mu
    /\ KeepQueueOnly

\* The statements on q.keys: they read len(q.items) after the store, one
\* more than the length the operator is given.
goKeys(g) ==
    /\ workers[g].pc = "stored"
    /\ LET q == [Unsolved EXCEPT !.items = Tail(Unsolved.items)]
       IN Unsolved' = [Unsolved EXCEPT !.keys = WorkerCall(g, q).keys]
    /\ workers' = SetWorker(g, [workers[g] EXCEPT !.pc = "keyed"])
    /\ UNCHANGED mu
    /\ KeepQueueOnly

goUnlock(g) ==
    /\ workers[g].pc = "keyed"
    /\ mu' = 0
    /\ workers' = SetWorker(g, [pc |-> "call", i |-> workers[g].i + 1,
                                local |-> <<>>])
    /\ UNCHANGED Unsolved
    /\ KeepQueueOnly

NextConcurrent ==
    \E g \in 1..2 :
        goLock(g) \/ goRead(g) \/ goStore(g) \/ goKeys(g) \/ goUnlock(g)

SpecConcurrent == InitQueue /\ [][NextConcurrent]_vars

-----------------------------------------------------------------------------
(* checks.ValidateVerificationGas, applied to operations of every kind of  *)
(* calldata with gas fields around the limits.                             *)

\* gas.Overhead.CalcPreVerificationGas: a fixed overhead plus a cost that
\* grows with the length of the calldata.
CalcPreVerificationGas(op) == 1 + op.CallData.code

ValidateVerificationGasInclusive(op, maxVerificationGas) ==
    IF op.VerificationGasLimit >= maxVerificationGas
    THEN "verificationGasLimit: exceeds maxVerificationGas"
    ELSE IF HasIntent(op) THEN "nil"
    ELSE IF op.PreVerificationGas < CalcPreVerificationGas(op)
    THEN "preVerificationGas: below expected gas"
    ELSE "nil"

\* ValidateVerificationGas: the error returned, "nil" for none.
ValidateVerificationGas(op, maxVerificationGas) ==
    IF op.VerificationGasLimit > maxVerificationGas
    THEN "verificationGasLimit: exceeds maxVerificationGas"
    ELSE IF HasIntent(op) THEN "nil"
    ELSE IF op.PreVerificationGas < CalcPreVerificationGas(op)
    THEN "preVerificationGas: below expected gas"
    ELSE "nil"

CallDatas ==
    {[kind |-> k, createdAt |-> 0, expirationAt |-> 0, code |-> c] :
        k \in {"evm", "intent", "json"}, c \in 0..2}

GasOps ==
    {[UserOp("s1", 1, cd, "none", 1) EXCEPT !.VerificationGasLimit = v,
                                            !.PreVerificationGas = p] :
        cd \in CallDatas, v \in 0..(MaxVerificationGas + 1), p \in 0..3}

validate(op) ==
    /\ last.act = "Init"
    /\ last' = [act |-> "ValidateVerificationGas", op |-> op,
                out |-> ValidateVerificationGas(op, MaxVerificationGas)]
    /\ UNCHANGED <<now, env, Unsolved, Buffer, InvalidIntents, solvedOps, adding,
                   mempool, crashed, admittedAt, calls>>
    /\ UNCHANGED <<batchVars, raceVars, queueVars, clientVars>>

InitGas == InitPipeline(1, {}, 0)

NextGas == \E op \in GasOps : validate(op)

SpecGas == InitGas /\ [][NextGas]_vars

-----------------------------------------------------------------------------
(* The mempool of section 4.2: the entries of every sender in order of     *)
(* arrival, each pending or in flight.                                     *)

Entry(op) == [op |-> op, inflight |-> FALSE]

SenderEntries(p, sender) == SelectSeq(p, LAMBDA e : e.op.Sender = sender)

\* HasHash: true for an operation that is pending or in flight.
HasUserOpHash(p, hash) == \E i \in DOMAIN p : GetUserOpHash(p[i].op) = hash

\* GetBySender.
GetOps(p, sender) ==
    [i \in DOMAIN SenderEntries(p, sender) |-> SenderEntries(p, sender)[i].op]

Positions(p, sender) == {i \in DOMAIN p : p[i].op.Sender = sender}

\* The position of the tail of the sender's sequence, 0 when it is empty.
TailIndex(p, sender) ==
    IF Positions(p, sender) = {} THEN 0
    ELSE CHOOSE i \in Positions(p, sender) : \A j \in Positions(p, sender) : j <= i

\* The senders whose reputation entry has the stake flag.
Staked == {"s2"}

BumpsFees(op, old) ==
    /\ op.MaxFeePerGas > old.MaxFeePerGas
    /\ op.MaxPriorityFeePerGas > old.MaxPriorityFeePerGas

AddOpUnthrottled(p, op) ==
    LET t == TailIndex(p, op.Sender) IN
    IF HasUserOpHash(p, GetUserOpHash(op))
    THEN [pool |-> p, err |-> "DuplicateHash"]
    ELSE IF t = 0 \/ op.Nonce > p[t].op.Nonce
    THEN [pool |-> Append(p, Entry(op)), err |-> "nil"]
    ELSE IF op.Nonce = p[t].op.Nonce /\ ~p[t].inflight /\ BumpsFees(op, p[t].op)
    THEN [pool |-> [p EXCEPT ![t] = Entry(op)], err |-> "nil"]
    ELSE [pool |-> p, err |-> "NonceRegression"]

\* Add: the mempool after the call and the error returned.  A pending tail
\* of the same nonce is replaced by an operation that raises both fee caps.
AddOp(p, op) ==
    LET t == TailIndex(p, op.Sender) IN
    IF HasUserOpHash(p, GetUserOpHash(op))
    THEN [pool |-> p, err |-> "DuplicateHash"]
    ELSE IF op.Sender \notin Staked
            /\ Len(SenderEntries(p, op.Sender)) >= MaxOpsForUnstakedSender
    THEN [pool |-> p, err |-> "SenderThrottled"]
    ELSE IF t = 0 \/ op.Nonce > p[t].op.Nonce
    THEN [pool |-> Append(p, Entry(op)), err |-> "nil"]
    ELSE IF op.Nonce = p[t].op.Nonce /\ ~p[t].inflight /\ BumpsFees(op, p[t].op)
    THEN [pool |-> [p EXCEPT ![t] = Entry(op)], err |-> "nil"]
    ELSE [pool |-> p, err |-> "NonceRegression"]

\* The entries DrainForBatch may select: for each sender the first entry of
\* its sequence, unless it is in flight.
Candidates(p) ==
    {i \in DOMAIN p :
        /\ ~p[i].inflight
        /\ \A j \in 1..(i - 1) : p[j].op.Sender # p[i].op.Sender}

LastCandidates(p) ==
    {i \in DOMAIN p :
        /\ ~p[i].inflight
        /\ \A j \in (i + 1)..Len(p) : p[j].op.Sender # p[i].op.Sender}

\* Highest maxPriorityFeePerGas first, ties broken by order of arrival.
Outranks(p, i, j) ==
    \/ p[i].op.MaxPriorityFeePerGas > p[j].op.MaxPriorityFeePerGas
    \/ /\ p[i].op.MaxPriorityFeePerGas = p[j].op.MaxPriorityFeePerGas
       /\ i < j

RECURSIVE ByPriority(_, _)
ByPriority(p, C) ==
    IF C = {} THEN <<>>
    ELSE LET best == CHOOSE i \in C : \A j \in C \ {i} : Outranks(p, i, j)
         IN  <<best>> \o ByPriority(p, C \ {best})

Selected(p, C, maxOps) ==
    LET order == ByPriority(p, C)
    IN  SubSeq(order, 1, IF Len(order) < maxOps THEN Len(order) ELSE maxOps)

Range(seq) == {seq[i] : i \in DOMAIN seq}

DrainLast(p, maxOps) ==
    LET sel == Selected(p, LastCandidates(p), maxOps) IN
    [pool  |-> [i \in DOMAIN p |->
                  IF i \in Range(sel) THEN [p[i] EXCEPT !.inflight = TRUE]
                  ELSE p[i]],
     batch |-> [k \in DOMAIN sel |-> p[sel[k]].op]]

\* DrainForBatch: the mempool with the selected entries in flight, and the
\* batch.
DrainForBatch(p, maxOps) ==
    LET sel == Selected(p, Candidates(p), maxOps) IN
    [pool  |-> [i \in DOMAIN p |->
                  IF i \in Range(sel) THEN [p[i] EXCEPT !.inflight = TRUE]
                  ELSE p[i]],
     batch |-> [k \in DOMAIN sel |-> p[sel[k]].op]]

Hashes(ops) == {GetUserOpHash(ops[i]) : i \in DOMAIN ops}

CommitBatch(p, hashes) ==
    SelectSeq(p, LAMBDA e : ~(e.inflight /\ GetUserOpHash(e.op) \in hashes))

RollbackBatch(p, hashes) ==
    [i \in DOMAIN p |->
        IF GetUserOpHash(p[i].op) \in hashes THEN [p[i] EXCEPT !.inflight = FALSE]
        ELSE p[i]]

Remove(p, hash) == SelectSeq(p, LAMBDA e : GetUserOpHash(e.op) # hash)

-----------------------------------------------------------------------------
(* The Client of pkg/client/client.go on that mempool.  A request is the   *)
(* entry point named by the caller, the operation, and whether userop.New  *)
(* can parse it.                                                           *)

supportedEntryPoints == {"ep1"}

parseEntryPointAddress(e) ==
    IF e \in supportedEntryPoints THEN "nil"
    ELSE "entryPoint: Implementation not supported"

\* The stack of validation modules run on the operation.
userOpHandler(op) == ValidateVerificationGas(op, MaxVerificationGas)

Failed(p, err) == [pool |-> p, hash |-> "", err |-> err]

ClientSendUserOperationAddsFirst(p, req) ==
    IF parseEntryPointAddress(req.ep) # "nil"
    THEN Failed(p, parseEntryPointAddress(req.ep))
    ELSE IF ~req.parses THEN Failed(p, "userop: invalid")
    ELSE IF userOpHandler(req.op) # "nil"
    THEN Failed(AddOp(p, req.op).pool, userOpHandler(req.op))
    ELSE IF AddOp(p, req.op).err # "nil"
    THEN Failed(AddOp(p, req.op).pool, AddOp(p, req.op).err)
    ELSE [pool |-> AddOp(p, req.op).pool, hash |-> GetUserOpHash(req.op),
          err |-> "nil"]

\* Client.SendUserOperation: the mempool after the call, the hash and the
\* error returned.
ClientSendUserOperation(p, req) ==
    IF parseEntryPointAddress(req.ep) # "nil"
    THEN Failed(p, parseEntryPointAddress(req.ep))
    ELSE IF ~req.parses THEN Failed(p, "userop: invalid")
    ELSE IF userOpHandler(req.op) # "nil"
    THEN Failed(p, userOpHandler(req.op))
    ELSE IF AddOp(p, req.op).err # "nil"
    THEN Failed(AddOp(p, req.op).pool, AddOp(p, req.op).err)
    ELSE [pool |-> AddOp(p, req.op).pool, hash |-> GetUserOpHash(req.op),
          err |-> "nil"]

Placeholder == [Nonce |-> "-1", from |-> "mempool"]

\* getUserOpReceipt: what the lookup of the UserOperationEvent returns.
OnChain(hash) == [Nonce |-> "event", from |-> "getUserOpReceipt"]

GetUserOperationReceiptFromChain(p, hash) == OnChain(hash)

\* Client.GetUserOperationReceipt.
GetUserOperationReceipt(p, hash) ==
    IF HasUserOpHash(p, hash) THEN Placeholder ELSE OnChain(hash)

\* The operations callers send: three nonces of an unstaked and of a staked
\* sender, a fee bump of one of them, and one above the verification gas cap.
ClientOp(sender, nonce, g) ==
    LET op == UserOp(sender, nonce, EVM(1), "none", g) IN
    [op EXCEPT !.VerificationGasLimit = MaxVerificationGas,
               !.PreVerificationGas = CalcPreVerificationGas(op)]

ClientOps ==
    {ClientOp(sender, nonce, 1) : sender \in {"s1", "s2"}, nonce \in 1..3}
        \cup {ClientOp("s1", 2, 2)}

OverCap == [ClientOp("s1", 1, 1) EXCEPT
               !.VerificationGasLimit = MaxVerificationGas + 1]

Requests ==
    {[ep |-> "ep1", op |-> op, parses |-> TRUE] : op \in ClientOps \cup {OverCap}}
        \cup {[ep |-> "ep2", op |-> ClientOp("s1", 1, 1), parses |-> TRUE],
              [ep |-> "ep1", op |-> ClientOp("s1", 1, 1), parses |-> FALSE]}

ClientStep(act, arg, out) ==
    /\ calls < env.calls
    /\ calls' = calls + 1
    /\ last' = [act |-> act, arg |-> arg, before |-> pool, out |-> out]
    /\ UNCHANGED <<now, env, Unsolved, Buffer, InvalidIntents, solvedOps, adding,
                   mempool, crashed, admittedAt>>
    /\ UNCHANGED <<PendingRemoval, pc, handlerRet, hist>>
    /\ UNCHANGED <<raceVars, queueVars>>

eth_sendUserOperation(req) ==
    /\ pool' = ClientSendUserOperation(pool, req).pool
    /\ ClientStep("SendUserOperation", req,
                  [hash |-> ClientSendUserOperation(pool, req).hash,
                   err |-> ClientSendUserOperation(pool, req).err])
    /\ UNCHANGED <<Batch, handleOpsCalls>>

\* eth_getUserOperationReceipt, asked once the previous call has returned.
eth_getUserOperationReceipt(hash) ==
    /\ last.act # "GetUserOperationReceipt"
    /\ last' = [act |-> "GetUserOperationReceipt", arg |-> hash, before |-> pool,
                out |-> GetUserOperationReceipt(pool, hash)]
    /\ UNCHANGED <<now, env, Unsolved, Buffer, InvalidIntents, solvedOps, adding,
                   mempool, crashed, admittedAt, calls>>
    /\ UNCHANGED <<batchVars, raceVars, queueVars, clientVars>>

InFlight(p) == {i \in DOMAIN p : p[i].inflight}

\* BatchAssembler step 1: a tick drains the mempool; the previous batch was
\* committed or rolled back before.
assemblerDrain(maxOps) ==
    /\ InFlight(pool) = {}
    /\ pool # <<>>
    /\ pool' = DrainForBatch(pool, maxOps).pool
    /\ Batch' = DrainForBatch(pool, maxOps).batch
    /\ ClientStep("DrainForBatch", maxOps, DrainForBatch(pool, maxOps).batch)
    /\ UNCHANGED handleOpsCalls

\* Step 4: the estimation reverts on the operation at opIndex, which is
\* removed from the batch and from the mempool.
assemblerRevert(opIndex) ==
    /\ opIndex + 1 \in DOMAIN Batch
    /\ pool' = Remove(pool, GetUserOpHash(Batch[opIndex + 1]))
    /\ Batch' = RemoveAt(Batch, opIndex + 1)
    /\ ClientStep("Remove", opIndex, <<Batch[opIndex + 1]>>)
    /\ UNCHANGED handleOpsCalls

\* Step 5, success: the batch is submitted and committed.
assemblerCommit ==
    /\ Batch # <<>>
    /\ pool' = CommitBatch(pool, Hashes(Batch))
    /\ handleOpsCalls' = Append(handleOpsCalls, Batch)
    /\ Batch' = <<>>
    /\ ClientStep("CommitBatch", Hashes(Batch), Batch)

\* Steps 3, 4 and 5, failure: the batch is rolled back.
assemblerRollback ==
    /\ InFlight(pool) # {} \/ Batch # <<>>
    /\ pool' = RollbackBatch(pool, Hashes(Batch))
    /\ Batch' = <<>>
    /\ ClientStep("RollbackBatch", Hashes(Batch), <<>>)
    /\ UNCHANGED handleOpsCalls

InitClient == InitPipeline(1, {}, MaxClientSteps)

NextClient ==
    \/ \E req \in Requests : eth_sendUserOperation(req)
    \/ \E op \in ClientOps : eth_getUserOperationReceipt(GetUserOpHash(op))
    \/ \E maxOps \in 1..2 : assemblerDrain(maxOps)
    \/ \E opIndex \in 0..1 : assemblerRevert(opIndex)
    \/ assemblerCommit
    \/ assemblerRollback

SpecClient == InitClient /\ [][NextClient]_vars

-----------------------------------------------------------------------------
(* The JSON-RPC Controller.  A method name is the sequence of its          *)
(* characters; a request is what the Controller reads of the HTTP request, *)
(* with what the handler called, or the node, would answer.                *)

UpperCase == <<"E", "T", "H", "C", "A", "I", "N", "D", "L", "X">>
LowerCase == <<"e", "t", "h", "c", "a", "i", "n", "d", "l", "x">>

ToLowerChar(c) ==
    IF \E k \in DOMAIN UpperCase : UpperCase[k] = c
    THEN LowerCase[CHOOSE k \in DOMAIN UpperCase : UpperCase[k] = c]
    ELSE c

ToUpperChar(c) ==
    IF \E k \in DOMAIN LowerCase : LowerCase[k] = c
    THEN UpperCase[CHOOSE k \in DOMAIN LowerCase : LowerCase[k] = c]
    ELSE c

\* strings.ToLower.
ToLower(name) == [i \in DOMAIN name |-> ToLowerChar(name[i])]

\* cases.Title(language.Und, cases.NoLower): the first letter of the word in
\* upper case, the others as they are; '_' does not end a word.
Title(name) ==
    IF name = <<>> THEN name ELSE [name EXCEPT ![1] = ToUpperChar(name[1])]

eth_chainId == <<"e", "t", "h", "_", "c", "h", "a", "i", "n", "I", "d">>
eth_call    == <<"e", "t", "h", "_", "c", "a", "l", "l">>
eth_x       == <<"e", "t", "h", "_", "x">>

\* The keys of bundlerMethods made of the letters above.
bundlerMethods == {ToLower(eth_chainId)}

isStdEthereumRPCMethod(method) == ToLower(method) \notin bundlerMethods

\* The methods of the api value: Eth_chainId, which takes no parameter.
ApiMethods == {Title(eth_chainId)}

NumIn(apiMethod) == 0

\* A response: who answers the request ("error": the Controller itself,
\* "proxy": the node behind routeStdEthereumRPCRequest, "api": the method
\* of the api it names) and the error code, 0 for a result.
Reply(by, apiMethod, code) == [by |-> by, apiMethod |-> apiMethod, code |-> code]

Controller(req) ==
    IF req.parse # "ok" THEN Reply("error", <<>>, -32700)
    ELSE IF ~req.id \/ ~req.version \/ ~req.hasMethod
    THEN Reply("error", <<>>, -32600)
    ELSE IF isStdEthereumRPCMethod(req.method)
    THEN Reply("proxy", <<>>, req.node)
    ELSE IF req.params = -1 THEN Reply("error", <<>>, -32602)
    ELSE IF Title(req.method) \notin ApiMethods
    THEN Reply("error", <<>>, -32601)
    ELSE IF NumIn(Title(req.method)) # req.params
    THEN Reply("error", <<>>, -32602)
    ELSE IF req.handler = "nil" THEN Reply("api", Title(req.method), 0)
    ELSE IF req.handler = "RPCError"
    THEN Reply("api", Title(req.method), req.rpcCode)
    ELSE Reply("api", Title(req.method), -32601)

\* Every spelling of a name in upper and lower case.
Casings(name) ==
    {[i \in DOMAIN name |-> IF i \in S THEN ToUpperChar(name[i])
                            ELSE ToLowerChar(name[i])] :
        S \in SUBSET DOMAIN name}

Methods == Casings(eth_chainId) \cup {eth_call, eth_x}

WellFormed(method) ==
    [parse |-> "ok", id |-> TRUE, version |-> TRUE, hasMethod |-> TRUE,
     method |-> method, params |-> 0, handler |-> "nil", rpcCode |-> 0,
     node |-> 0]

RpcRequests ==
    {[WellFormed(m) EXCEPT !.handler = h, !.params = n] :
        m \in Methods, h \in {"nil", "RPCError", "internal"}, n \in -1..1}
    \cup {[WellFormed(eth_chainId) EXCEPT !.parse = x] :
            x \in {"notPost", "noBody", "readError", "badJson"}}
    \cup {[WellFormed(eth_chainId) EXCEPT !.id = FALSE],
          [WellFormed(eth_chainId) EXCEPT !.version = FALSE],
          [WellFormed(eth_chainId) EXCEPT !.hasMethod = FALSE]}
    \cup {[WellFormed(m) EXCEPT !.node = c] :
            m \in {eth_call, eth_x}, c \in {0, -32601, -32602, -32603}}

RpcCodes(req) == IF req.handler = "RPCError" THEN {-32500, -32602} ELSE {0}

serve(req) ==
    /\ last.act = "Init"
    /\ last' = [act |-> "Controller", req |-> req, out |-> Controller(req)]
    /\ UNCHANGED <<now, env, Unsolved, Buffer, InvalidIntents, solvedOps, adding,
                   mempool, crashed, admittedAt, calls>>
    /\ UNCHANGED <<batchVars, raceVars, queueVars, clientVars>>

InitRpc == InitPipeline(1, {}, 0)

NextRpc ==
    \E r \in RpcRequests : \E c \in RpcCodes(r) : serve([r EXCEPT !.rpcCode = c])

SpecRpc == InitRpc /\ [][NextRpc]_vars

-----------------------------------------------------------------------------
(* identifyIntent called on its own: operations with every combination of  *)
(* createdAt and expirationAt given or absent, at several times, on an     *)
(* entry point that holds what the earlier calls left.                     *)

IdentifyOps ==
    {UserOp(s, 1, IntentJSON(c, e), "none", 1) :
        s \in {"s1", "s2"}, c \in 0..2, e \in {0, 2, 3}}
    \cup {UserOp("s1", 2, OtherJSON, "none", 1), UserOp("s2", 2, EVM(1), "none", 1)}

callIdentifyIntent(userOp) ==
    /\ calls < env.calls
    /\ calls' = calls + 1
    /\ LET r == identifyIntent(ep, userOp, now)
       IN  /\ Unsolved' = r.ep.Unsolved
           /\ Buffer' = r.ep.Buffer
           /\ InvalidIntents' = r.ep.InvalidIntents
           /\ last' = [act |-> "identifyIntent", op |-> userOp, t |-> now,
                       before |-> ep, out |-> r.ok]
    /\ UNCHANGED <<now, env, solvedOps, adding, mempool, crashed, admittedAt>>
    /\ UNCHANGED <<batchVars, raceVars, queueVars, clientVars>>

\* A second passes between two calls.
clockTick ==
    /\ now < env.horizon
    /\ now' = now + 1
    /\ UNCHANGED <<env, Unsolved, Buffer, InvalidIntents, solvedOps, adding,
                   mempool, crashed, admittedAt, calls, last>>
    /\ UNCHANGED <<batchVars, raceVars, queueVars, clientVars>>

InitIdentify == InitPipeline(MaxTime, {}, MaxIdentifyCalls)

NextIdentify ==
    \/ \E userOp \in IdentifyOps : callIdentifyIntent(userOp)
    \/ clockTick

SpecIdentify == InitIdentify /\ [][NextIdentify]_vars

-----------------------------------------------------------------------------
(* Properties of the pipeline.                                             *)

InQueue(h) == \E i \in DOMAIN Unsolved.items : Unsolved.items[i].Hash = h

Tracked(h) == InQueue(h) \/ h \in DOMAIN Buffer

\* C1: after a tick whose POST failed with a transport error, the unsolved
\* queue holds every intent of the tick's snapshot, in the snapshot's order.
C1_RequeuedAfterTransportError ==
    last.act = "TickTransportError" => ToSlice(Unsolved) = last.sent

\* C2: while every Solver call fails, every admitted intent stays in the
\* mempool and stays tracked (in the unsolved queue, with its Buffer entry),
\* and no eth_sendUserOperation caller receives an error.
C2_OutageKeepsIntents ==
    /\ \A h \in DOMAIN admittedAt :
          h \in DOMAIN mempool /\ h \in DOMAIN Buffer /\ InQueue(h)
    /\ last.ret # "error"

\* C3: an admitted intent is no longer tracked by the pipeline once
\* MaxOpTTL + TickPeriod seconds have passed since its admission.
C3_UntrackedWithinMaxOpTTL ==
    \A h \in DOMAIN admittedAt :
        now > admittedAt[h] + MaxOpTTL + TickPeriod => ~Tracked(h)

\* C4: with a Solver that always answers Unsolved, a tick at second `now`
\* re-enqueues an intent of its snapshot if now < expirationAt, and otherwise
\* leaves it out of the queue, the Buffer and the mempool.
C4_UnsolvedUntilExpiration ==
    last.act = "TickResponse" =>
        \A i \in DOMAIN last.sent :
            LET intent == last.sent[i] IN
            IF now < intent.ExpirationAt
            THEN InQueue(intent.Hash)
            ELSE /\ ~InQueue(intent.Hash)
                 /\ intent.Hash \notin DOMAIN Buffer
                 /\ intent.Hash \notin DOMAIN mempool

\* C5: after a tick whose response carries Expired or Invalid for an intent,
\* the intent's hash is in neither the unsolved queue nor the Buffer, and the
\* parent operation is not in the mempool.
C5_ExpiredOrInvalidRemoved ==
    last.act = "TickResponse" =>
        \A i \in DOMAIN last.returned :
            last.returned[i].Status \in {"Expired", "Invalid"} =>
                /\ ~InQueue(last.returned[i].Hash)
                /\ last.returned[i].Hash \notin DOMAIN Buffer
                /\ last.returned[i].Hash \notin DOMAIN mempool

-----------------------------------------------------------------------------
(* Properties of the batch handlers.                                       *)

Ops(seq) == {seq[i] : i \in DOMAIN seq}

ResponseHashes ==
    {hist.response.UserOpsExt[i].OriginalHashValue :
        i \in DOMAIN hist.response.UserOpsExt}

\* C6: when the Solver has answered a subset of the intents in some order,
\* every solution applied was written to the operation that was drained with
\* the hash of the entry, and every intent of the batch that the response
\* does not name is still in the batch as it was drained.
C6_EntriesAppliedByHash ==
    (hist.answered /\ ~hist.relayed) =>
        /\ \A k \in DOMAIN hist.applied :
              \E j \in DOMAIN hist.drained :
                  /\ OpId(hist.drained[j]) = hist.applied[k].target
                  /\ GetUserOpHash(hist.drained[j]) = hist.applied[k].entry
        /\ \A j \in DOMAIN hist.drained :
              (/\ modelHasIntent(hist.drained[j])
               /\ GetUserOpHash(hist.drained[j]) \notin ResponseHashes)
              => hist.drained[j] \in Ops(Batch)

\* C7: after the Solver's solutions have been applied, every operation of the
\* batch has the hash it was drained with.
C7_HashUnchangedBySolution ==
    (hist.answered /\ ~hist.relayed) =>
        \A i \in DOMAIN Batch :
            \E j \in DOMAIN hist.drained :
                /\ OpId(hist.drained[j]) = OpId(Batch[i])
                /\ GetUserOpHash(hist.drained[j]) = GetUserOpHash(Batch[i])

\* C8: every operation of the round has the sender, the nonce and the
\* initCode of an operation that was drained, and no operation had its
\* calldata and signature replaced by more than one solution.
C8_OnlySolutionFieldsOnce ==
    hist.answered =>
        /\ \A op \in Ops(Batch) \cup Ops(PendingRemoval) :
              \E j \in DOMAIN hist.drained :
                  /\ hist.drained[j].Sender = op.Sender
                  /\ hist.drained[j].Nonce = op.Nonce
                  /\ hist.drained[j].InitCode = op.InitCode
        /\ \A k1, k2 \in DOMAIN hist.applied :
              hist.applied[k1].target = hist.applied[k2].target => k1 = k2

\* C9: no batch passed to handleOps holds an unsolved intent, and an unsolved
\* intent the Relayer received is not marked for removal: it stays in the
\* batch of the context.
C9_UnsolvedNeitherSentNorRemoved ==
    /\ \A c \in DOMAIN handleOpsCalls :
          \A op \in Ops(handleOpsCalls[c]) : ~IsUnsolvedIntent(op)
    /\ hist.relayed =>
          \A op \in Ops(hist.received) : IsUnsolvedIntent(op) => op \in Ops(Batch)

\* C10: when the Relayer has returned without an error, every conventional
\* operation and every solved intent left in the batch is in a batch that
\* was passed to handleOps.
C10_BothGroupsSubmitted ==
    (hist.relayed /\ handlerRet = "nil") =>
        \A op \in Ops(Batch) :
            (IsSolvedIntent(op) \/ ~modelHasIntent(op)) =>
                \E c \in DOMAIN handleOpsCalls : op \in Ops(handleOpsCalls[c])

\* The batch that is left when each revert removes the operation it names
\* from the batch that was estimated.
RECURSIVE WithoutReverted(_, _, _)
WithoutReverted(batch, reverts, i) ==
    IF i > Len(reverts) THEN batch
    ELSE WithoutReverted(IF reverts[i] + 1 \in DOMAIN batch
                         THEN RemoveAt(batch, reverts[i] + 1) ELSE batch,
                         reverts, i + 1)

\* C11: when the estimation of a batch of conventional operations reverts
\* with opIndex k, the k-th operation of the estimated batch, and no other,
\* leaves the batch and is marked for removal, and what is passed to
\* handleOps is the remaining operations in their order.
C11_RevertRemovesNamedOp ==
    (hist.relayed /\ NonIntents(hist.received) # <<>> /\ ~hist.estErr) =>
        LET estimated == NonIntents(hist.received)
            remaining == WithoutReverted(estimated, hist.reverts, 1)
        IN  /\ handleOpsCalls = <<remaining>>
            /\ \A op \in Ops(estimated) :
                  op \in Ops(PendingRemoval) <=> op \notin Ops(remaining)

\* C12: when the Solver call of SolveIntents fails with a transport error,
\* the round does not fail: no handler has returned an error when it ends,
\* and every conventional operation of the drained batch is in a batch passed
\* to handleOps.
C12_SolverErrorKeepsConventional ==
    (pc = "done" /\ hist.solverErr) =>
        /\ handlerRet = "nil"
        /\ \A op \in Ops(hist.drained) :
              ~modelHasIntent(op) =>
                  \E c \in DOMAIN handleOpsCalls : op \in Ops(handleOpsCalls[c])

\* C13: at most one Solver request of the tickers of the entry point is in
\* flight.
C13_OnePostInFlight ==
    Cardinality({e \in DOMAIN created : created[e].posting}) <= 1

C15_SubmissionFailureReported ==
    (hist.relayed /\ hist.hoErr /\ handleOpsCalls # <<>>) => handlerRet = "error"

-----------------------------------------------------------------------------
(* Properties of the Queue.                                                *)

HoldsKey(q, key) == \E i \in DOMAIN q.items : q.items[i].key = key

\* C16: after any sequence of calls, FindIndexByKey(k) finds k exactly when
\* an item enqueued under k is in the queue, and the index it returns is the
\* position of such an item.
C16_IndexCoherent ==
    \A key \in Keys :
        LET r == FindIndexByKey(Unsolved, key) IN
        /\ r.found <=> HoldsKey(Unsolved, key)
        /\ r.found => /\ r.index + 1 \in DOMAIN Unsolved.items
                      /\ Unsolved.items[r.index + 1].key = key

Enqueued(g) == {WorkerItem(g, i) : i \in 0..(workers[g].i - 1)}

InItems(q, item) == \E i \in DOMAIN q.items : q.items[i] = item

\* C17: when goroutines call EnqueueHead and EnqueueTail at the same time,
\* every enqueue that has returned left its item in the queue, and the queue
\* holds as many items as enqueues were made.
C17_NoEnqueueLost ==
    /\ \A g \in 1..2 : \A item \in Enqueued(g) : InItems(Unsolved, item)
    /\ mu = 0 => Len(ToSlice(Unsolved)) = workers[1].i + workers[2].i

C17_Witness ==
    /\ \A g \in 1..2 : workers[g].i = MaxEnqueues /\ workers[g].pc = "call"
    /\ Len(ToSlice(Unsolved)) = 2 * MaxEnqueues
    /\ Unsolved.items[1].key[1] = "headKey"
    /\ Unsolved.items[2 * MaxEnqueues].key[1] = "key"

\* C18: EnqueueHead(k, x) puts x at position 0 with the previous items
\* behind it in their order, makes FindIndexByKey(k) return (0, true), and
\* raises by one the index returned for every other key.
C18_EnqueueHeadShifts ==
    last.act = "EnqueueHead" =>
        /\ ToSlice(Unsolved) = <<last.item>> \o ToSlice(last.before)
        /\ FindIndexByKey(Unsolved, last.key) = [index |-> 0, found |-> TRUE]
        /\ \A key \in Keys \ {last.key} :
              LET was == FindIndexByKey(last.before, key)
                  is == FindIndexByKey(Unsolved, key)
              IN /\ is.found = was.found
                 /\ was.found => is.index = was.index + 1

C18_Witness ==
    /\ last.act = "EnqueueHead"
    /\ Len(ToSlice(last.before)) >= 2
    /\ \E key \in Keys \ {last.key} :
          /\ FindIndexByKey(last.before, key) = [index |-> 0, found |-> TRUE]
          /\ FindIndexByKey(Unsolved, key) = [index |-> 1, found |-> TRUE]

\* C19: EnqueueTail(k, x) and EnqueueWithKey(k, x) append x, leave the other
\* items and the index of every other key as they were, and make
\* FindIndexByKey(k) return (Size() - 1, true).
C19_EnqueueTailAppends ==
    last.act \in {"EnqueueTail", "EnqueueWithKey"} =>
        /\ ToSlice(Unsolved) = Append(ToSlice(last.before), last.item)
        /\ FindIndexByKey(Unsolved, last.key) =
               [index |-> Size(Unsolved) - 1, found |-> TRUE]
        /\ \A key \in Keys \ {last.key} :
              FindIndexByKey(Unsolved, key) = FindIndexByKey(last.before, key)

C19_Witness ==
    /\ last.act = "EnqueueTail"
    /\ Len(ToSlice(last.before)) >= 2
    /\ FindIndexByKey(Unsolved, last.key).index = 2
    /\ \E key \in Keys \ {last.key} : FindIndexByKey(Unsolved, key).found

\* C20: Dequeue on a non-empty queue returns the head item and true and
\* leaves the other items in their order; on an empty queue it returns the
\* zero value and false and leaves the queue as it was.
C20_DequeueReturnsHead ==
    last.act = "Dequeue" =>
        IF ToSlice(last.before) # <<>>
        THEN /\ last.out = [item |-> Head(ToSlice(last.before)), ok |-> TRUE]
             /\ ToSlice(Unsolved) = Tail(ToSlice(last.before))
        ELSE /\ last.out = [item |-> ZeroValue, ok |-> FALSE]
             /\ Unsolved = last.before

C20_Witness ==
    /\ last.act = "Dequeue"
    /\ Len(ToSlice(last.before)) >= 2
    /\ last.out.ok
    /\ last.out.item # ToSlice(Unsolved)[1]

\* C21: Delete(i) with 0 <= i < Size() removes the item at position i and
\* keeps the other items in their order; with i out of range it returns an
\* error and leaves the items and the key indices as they were.
C21_DeleteRemovesOne ==
    last.act = "Delete" =>
        IF 0 <= last.out.index /\ last.out.index < Size(last.before)
        THEN /\ ~last.out.err
             /\ Size(Unsolved) = Size(last.before) - 1
             /\ \A i \in 1..Size(Unsolved) :
                   ToSlice(Unsolved)[i] =
                       ToSlice(last.before)[IF i <= last.out.index THEN i
                                            ELSE i + 1]
        ELSE /\ last.out.err
             /\ Unsolved = last.before

C21_Witness ==
    /\ last.act = "Delete"
    /\ last.out.index = 1
    /\ Size(last.before) = 3
    /\ ~last.out.err

\* C22: after Reset(c), whatever the queue held, Size() is 0, ToSlice() is
\* empty and Capacity() is c.
C22_ResetEmpties ==
    last.act = "Reset" =>
        /\ Size(Unsolved) = 0
        /\ ToSlice(Unsolved) = <<>>
        /\ Capacity(Unsolved) = last.out.capacity

C22_Witness ==
    /\ last.act = "Reset"
    /\ Size(last.before) >= 2
    /\ Capacity(last.before) # last.out.capacity
    /\ Capacity(Unsolved) = 2

-----------------------------------------------------------------------------
(* Properties of the Client and of the mempool.                            *)

Unstaked == {"s1", "s2"} \ Staked

\* C23: an unstaked sender never has more than MaxOpsForUnstakedSender
\* operations in the mempool: an eth_sendUserOperation that would add one
\* more fails with SenderThrottled and leaves the mempool as it was.
C23_UnstakedSenderThrottled ==
    /\ \A sender \in Unstaked :
          Len(SenderEntries(pool, sender)) <= MaxOpsForUnstakedSender
    /\ (/\ last.act = "SendUserOperation"
        /\ last.arg.ep \in supportedEntryPoints
        /\ last.arg.parses
        /\ userOpHandler(last.arg.op) = "nil"
        /\ ~HasUserOpHash(last.before, GetUserOpHash(last.arg.op))
        /\ last.arg.op.Sender \in Unstaked
        /\ Len(SenderEntries(last.before, last.arg.op.Sender))
               >= MaxOpsForUnstakedSender) =>
            /\ last.out = [hash |-> "", err |-> "SenderThrottled"]
            /\ pool = last.before

C23_Witness ==
    /\ last.act = "SendUserOperation"
    /\ last.out.err = "SenderThrottled"
    /\ Len(SenderEntries(pool, last.arg.op.Sender)) = MaxOpsForUnstakedSender
    /\ last.arg.op.Nonce > SenderEntries(pool, last.arg.op.Sender)[
                               MaxOpsForUnstakedSender].op.Nonce

LowestOfSender(p, op) ==
    \A i \in DOMAIN p :
        (p[i].op.Sender = op.Sender /\ p[i].op # op) => p[i].op.Nonce > op.Nonce

NonceOrdered(batch) ==
    \A i, j \in DOMAIN batch :
        (i < j /\ batch[i].Sender = batch[j].Sender) =>
            batch[i].Nonce < batch[j].Nonce

\* C24: a drain selects at most one operation per sender, the one with the
\* lowest nonce in the mempool; an operation that leaves the mempool in a
\* batch or by a revert has a lower nonce than the operations of its sender
\* that stay; and no batch submitted holds operations of one sender out of
\* nonce order.
C24_LowestNonceFirst ==
    /\ last.act = "DrainForBatch" =>
          /\ Len(last.out) <= last.arg
          /\ \A i, j \in DOMAIN last.out :
                i # j => last.out[i].Sender # last.out[j].Sender
          /\ \A i \in DOMAIN last.out : LowestOfSender(last.before, last.out[i])
    /\ last.act \in {"CommitBatch", "Remove"} =>
          \A i \in DOMAIN last.out : LowestOfSender(last.before, last.out[i])
    /\ \A k \in DOMAIN handleOpsCalls : NonceOrdered(handleOpsCalls[k])

C24_Witness ==
    /\ last.act = "DrainForBatch"
    /\ last.arg = 1
    /\ last.out = <<ClientOp("s1", 2, 1)>>
    /\ handleOpsCalls = << <<ClientOp("s1", 1, 1)>> >>

-----------------------------------------------------------------------------
(* Properties of the JSON-RPC Controller.                                  *)

\* C28: when the method called returns an error that is not an RPCError,
\* the response carries the code -32603; the Controller answers -32601
\* only to a method it does not know, -32700 only to a request it cannot
\* parse and -32602 only to invalid params.
C28_InternalErrorCode ==
    last.act = "Controller" =>
        /\ (last.out.by = "api" /\ last.req.handler = "internal") =>
               last.out.code = -32603
        /\ (last.out.by # "proxy" /\ last.out.code = -32601) =>
               Title(last.req.method) \notin ApiMethods
        /\ (last.out.by # "proxy" /\ last.out.code = -32700) =>
               last.req.parse # "ok"
        /\ (last.out.by = "error" /\ last.out.code = -32602) =>
               \/ last.req.params = -1
               \/ NumIn(Title(last.req.method)) # last.req.params

\* C29: a request whose method is an allow-listed bundler method up to the
\* case of its letters is answered by the method of the api that answers
\* the canonical spelling, and is never proxied to the node.
C29_MethodsMatchedIgnoringCase ==
    (/\ last.act = "Controller"
     /\ last.req.parse = "ok" /\ last.req.id /\ last.req.version
     /\ last.req.hasMethod
     /\ ToLower(last.req.method) = ToLower(eth_chainId)
     /\ last.req.params = NumIn(Title(eth_chainId))) =>
        /\ last.out.by = "api"
        /\ last.out.apiMethod = Controller(WellFormed(eth_chainId)).apiMethod

\* The operations a step put on the solved-operations channel.
Emitted == SubSeq(solvedOps', Len(solvedOps) + 1, Len(solvedOps'))

\* C30: for every intent a tick's response returns with status Solved, the
\* operation stored in Buffer under the hash of the intent is put on the
\* solved-operations channel exactly once with the returned calldata, the
\* hash leaves Buffer, and the intent is not in the unsolved queue after
\* the tick.
C30_SolvedEmittedOnce ==
    [][last'.act = "TickResponse" =>
          \A i \in DOMAIN last'.returned :
              last'.returned[i].Status = "Solved" =>
                  LET h == last'.returned[i].Hash IN
                  /\ h \in DOMAIN Buffer
                  /\ Cardinality({k \in DOMAIN Emitted :
                         Emitted[k] = [Buffer[h] EXCEPT !.CallData =
                                          EVM(last'.returned[i].CallData)]}) = 1
                  /\ h \notin DOMAIN Buffer'
                  /\ \A k \in DOMAIN Unsolved'.items :
                         Unsolved'.items[k].Hash # h]_vars

\* C31: identifyIntent on an operation whose calldata decodes as an intent
\* returns true, stores the operation in Buffer under its hash, and puts
\* at the head of the unsolved queue an intent with that hash, the status
\* Received, the createdAt given or else the time of the call, and the
\* expirationAt given or else createdAt + ttl; on an operation that has no
\* intent it returns false and changes neither the queue, the Buffer nor
\* the counter.
C31_IdentifyIntent ==
    last.act = "identifyIntent" =>
        LET op == last.op
            h  == GetUserOpHash(op)
            c  == IF op.CallData.createdAt = 0 THEN last.t
                  ELSE op.CallData.createdAt
            e  == IF op.CallData.expirationAt = 0 THEN c + ttl
                  ELSE op.CallData.expirationAt
        IN  /\ DecodesAsIntent(op) =>
                /\ last.out
                /\ h \in DOMAIN Buffer /\ Buffer[h] = op
                /\ \A k \in DOMAIN last.before.Buffer \ {h} :
                       k \in DOMAIN Buffer /\ Buffer[k] = last.before.Buffer[k]
                /\ Unsolved.items =
                       <<[Hash |-> h, Status |-> "Received", CreatedAt |-> c,
                          ExpirationAt |-> e, CallData |-> 0]>>
                       \o last.before.Unsolved.items
                /\ InvalidIntents = last.before.InvalidIntents
            /\ ~HasIntent(op) =>
                /\ ~last.out
                /\ Unsolved = last.before.Unsolved
                /\ Buffer = last.before.Buffer
                /\ InvalidIntents = last.before.InvalidIntents

\* An intent that gave its createdAt and no expirationAt is identified
\* after another one, later than the time it gave.
C31_Witness ==
    /\ last.act = "identifyIntent"
    /\ last.op.CallData.kind = "intent"
    /\ last.op.CallData.createdAt # 0
    /\ last.op.CallData.createdAt # last.t
    /\ last.op.CallData.expirationAt = 0
    /\ Len(last.before.Unsolved.items) = 1
    /\ Len(Unsolved.items) = 2

C33_UnknownStatusDropsOnlyIntent ==
    (/\ hist.answered
     /\ \E i \in DOMAIN hist.response.UserOpsExt :
           hist.response.UserOpsExt[i].ProcessingStatus = "Unknown") =>
        /\ handlerRet = "nil"
        /\ \A i \in DOMAIN hist.response.UserOpsExt :
              hist.response.UserOpsExt[i].ProcessingStatus = "Solved" =>
                  \E k \in DOMAIN hist.applied :
                      hist.applied[k].entry =
                          hist.response.UserOpsExt[i].OriginalHashValue

\* The hashes the response names with a status that drops the intent.
DroppedHashes ==
    {hist.response.UserOpsExt[i].OriginalHashValue :
        i \in {j \in DOMAIN hist.response.UserOpsExt :
                  hist.response.UserOpsExt[j].ProcessingStatus
                      \in {"Unsolved", "Expired", "Invalid", "Received"}}}

\* C34: when every entry of the response has the status Unsolved, Expired,
\* Invalid or Received and names every intent sent, SolveIntents marks for
\* removal exactly the operations whose hash an entry names, and the other
\* operations stay in the batch, in their order, as they were drained.
C34_DropsTheNamedOperation ==
    (/\ hist.answered /\ ~hist.relayed
     /\ Len(hist.response.UserOpsExt) = Len(IntentIndices(hist.drained))
     /\ \A i \in DOMAIN hist.response.UserOpsExt :
           hist.response.UserOpsExt[i].ProcessingStatus
               \in {"Unsolved", "Expired", "Invalid", "Received"}) =>
        /\ Ops(PendingRemoval) =
               {op \in Ops(hist.drained) : GetUserOpHash(op) \in DroppedHashes}
        /\ Batch = SelectSeq(hist.drained,
                       LAMBDA op : GetUserOpHash(op) \notin DroppedHashes)

\* C35: every intent of a request a tick sends to the Solver has the status
\* SentToSolver when the request is sent.
C35_SentMarkedSentToSolver ==
    last.act \in {"TickResponse", "TickTransportError"} =>
        \A i \in DOMAIN last.sent : last.sent[i].Status = "SentToSolver"

\* C36: a goroutine started by processIntentUserOps adds its solved
\* operation to the mempool only when no goroutine started before it still
\* holds an operation of the same sender with a lower nonce.
C36_SolvedAddedInNonceOrder ==
    [][\A i \in DOMAIN adding :
          addSolvedToMemPool(i) =>
              \A j \in 1..(i - 1) :
                  adding[j].Sender = adding[i].Sender =>
                      adding[j].Nonce >= adding[i].Nonce]_vars

\* C37: when the first tick of an entry point has reset the queue and its
\* POST is under way, every intent a handler has enqueued in that entry
\* point is in the snapshot sent to the Solver or in the unsolved queue.
C37_EnqueuedDuringTickKept ==
    \A e \in DOMAIN created :
        (created[e].posting /\ created[e].ticks = 1) =>
            \A h \in DOMAIN rpc :
                (rpc[h].pc = "done" /\ rpc[h].ep = e) =>
                    \/ \E i \in DOMAIN created[e].sent :
                          created[e].sent[i].Hash = GetUserOpHash(rpc[h].op)
                    \/ \E i \in DOMAIN created[e].Unsolved.items :
                          created[e].Unsolved.items[i].Hash = GetUserOpHash(rpc[h].op)

\* C38: when the only entry of the Solver's response names a hash that no
\* operation of the request has, and the request held one intent, the
\* batch is as it was drained and no operation is marked for removal.
C38_ForeignEntryChangesNothing ==
    (/\ hist.answered /\ ~hist.relayed
     /\ Len(IntentIndices(hist.drained)) = 1
     /\ Len(hist.response.UserOpsExt) = 1
     /\ \A j \in DOMAIN hist.drained :
           GetUserOpHash(hist.drained[j]) #
               hist.response.UserOpsExt[1].OriginalHashValue) =>
        /\ Batch = hist.drained
        /\ PendingRemoval = <<>>

\* C39: while the Relayer's estimation loop runs, the estimations that
\* reverted are at most as many as the operations of the batch the loop
\* started with, so that at most one more estimation ends the loop.
C39_EstimationLoopTerminates ==
    pc = "estimate" => Len(hist.reverts) <= Len(NonIntents(hist.received))

\* C40: no tick reads a missing Buffer entry for an intent the Solver
\* returned Solved: the loop of sendToSolver never dereferences nil.
C40_SolvedHasBufferEntry == ~crashed

====
